---- MODULE Spec2Model ----
(***************************************************************************)
(* A model of FlightDataDB (src/backend/tools/flight_data_db.py): the      *)
(* per-session DuckDB stores, the in-memory catalog of message tables, and *)
(* the operations store_flight_data, query, get_database_information,      *)
(* cleanup_existing_data and close, with the value normalizer and the type *)
(* inferencer they use.                                                    *)
(***************************************************************************)
EXTENDS Integers, Sequences, FiniteSets, TLC

VARIABLES
    connections,     \* self.connections: the session ids that hold a connection
    message_tables,  \* self.message_tables: session id -> set of known message names
    db,              \* the store files: session id -> (table name -> table)
    call             \* the call in progress: its arguments, the state it started
                     \* from and its outcome; NoCall between calls

vars == <<connections, message_tables, db, call>>

(***************************************************************************)
(* Bounds of the model.                                                    *)
(***************************************************************************)
MaxLen == 2      \* longest column of an ingested message
MaxRows == 2     \* most rows a table may hold

(***************************************************************************)
(* Python values.  Every value is a record of one shape: k is the Python   *)
(* type, n the number (an int's value, a bool's 0/1, a float's value in    *)
(* tenths), s the characters of a str as a sequence of tokens, xs the      *)
(* items of a list.                                                        *)
(***************************************************************************)
PyVal(k, n, s, xs) == [k |-> k, n |-> n, s |-> s, xs |-> xs]
PyNone == PyVal("none", 0, <<>>, <<>>)
PyInt(i) == PyVal("int", i, <<>>, <<>>)
PyFloat(tenths) == PyVal("float", tenths, <<>>, <<>>)
PyBool(b) == PyVal("bool", IF b THEN 1 ELSE 0, <<>>, <<>>)
PyStr(tokens) == PyVal("str", 0, tokens, <<>>)
PyList(items) == PyVal("list", 0, <<>>, items)
PyDict == PyVal("dict", 0, <<>>, <<>>)
\* float('nan'), what a NULL of a numeric column is in a pandas DataFrame
PyNaN == PyVal("nan", 0, <<>>, <<>>)

\* isinstance(v, int): a bool is an int in Python
IsInt(v) == v.k \in {"int", "bool"}
\* isinstance(v, (int, float))
IsNumeric(v) == v.k \in {"int", "bool", "float"}
\* isinstance(v, (int, float, str, bool))
IsScalar(v) == v.k \in {"int", "bool", "float", "str"}

(***************************************************************************)
(* json.dumps, as the tokens of the text it returns.                       *)
(***************************************************************************)
FloatTokens(tenths) ==
    LET a == IF tenths < 0 THEN -tenths ELSE tenths
    IN  (IF tenths < 0 THEN <<"-">> ELSE <<>>)
        \o <<ToString(a \div 10), ".", ToString(a % 10)>>

RECURSIVE json_dumps(_)
RECURSIVE json_items(_, _)
json_items(xs, i) ==
    IF i > Len(xs) THEN <<>>
    ELSE (IF i > 1 THEN <<", ">> ELSE <<>>) \o json_dumps(xs[i]) \o json_items(xs, i + 1)

json_dumps(v) ==
    CASE v.k = "none" -> <<"null">>
      [] v.k = "int" -> <<ToString(v.n)>>
      [] v.k = "bool" -> <<IF v.n = 1 THEN "true" ELSE "false">>
      [] v.k = "float" -> FloatTokens(v.n)
      [] v.k = "str" -> <<"\"">> \o v.s \o <<"\"">>
      [] v.k = "list" -> <<"[">> \o json_items(v.xs, 1) \o <<"]">>
      [] OTHER -> <<"{", "}">>

(***************************************************************************)
(* json.loads on the tokens of a text: [ok, v]; ok is FALSE for a          *)
(* JSONDecodeError.  Numbers are the one-digit integers and the floats of  *)
(* one digit before and after the point; items are separated by "," or     *)
(* ", ".                                                                   *)
(***************************************************************************)
IsDigit(tok) == \E d \in 0..9 : tok = ToString(d)
DigitOf(tok) == CHOOSE d \in 0..9 : tok = ToString(d)
JsonFail == [ok |-> FALSE, v |-> PyNone, p |-> 0]

RECURSIVE parse_value(_, _)
RECURSIVE parse_items(_, _, _)
parse_items(s, p, acc) ==
    LET r == parse_value(s, p)
    IN  IF ~r.ok \/ r.p > Len(s) THEN JsonFail
        ELSE IF s[r.p] = "]" THEN [ok |-> TRUE, v |-> PyList(Append(acc, r.v)), p |-> r.p + 1]
        ELSE IF s[r.p] \in {",", ", "} THEN parse_items(s, r.p + 1, Append(acc, r.v))
        ELSE JsonFail

parse_value(s, p) ==
    IF p > Len(s) THEN JsonFail
    ELSE IF s[p] = "[" THEN
        IF p + 1 <= Len(s) /\ s[p + 1] = "]"
        THEN [ok |-> TRUE, v |-> PyList(<<>>), p |-> p + 2]
        ELSE parse_items(s, p + 1, <<>>)
    ELSE IF IsDigit(s[p]) THEN
        IF p + 2 <= Len(s) /\ s[p + 1] = "." /\ IsDigit(s[p + 2])
        THEN [ok |-> TRUE, v |-> PyFloat(10 * DigitOf(s[p]) + DigitOf(s[p + 2])), p |-> p + 3]
        ELSE [ok |-> TRUE, v |-> PyInt(DigitOf(s[p])), p |-> p + 1]
    ELSE IF s[p] = "null" THEN [ok |-> TRUE, v |-> PyNone, p |-> p + 1]
    ELSE IF s[p] \in {"true", "false"}
        THEN [ok |-> TRUE, v |-> PyBool(s[p] = "true"), p |-> p + 1]
    ELSE IF s[p] = "\"" THEN
        LET ends == {q \in (p + 1)..Len(s) : s[q] = "\""}
        IN  IF ends = {} THEN JsonFail
            ELSE LET q == CHOOSE x \in ends : \A y \in ends : x <= y
                 IN  [ok |-> TRUE, v |-> PyStr(SubSeq(s, p + 1, q - 1)), p |-> q + 1]
    ELSE JsonFail

json_loads(s) ==
    LET r == parse_value(s, 1)
    IN  IF r.ok /\ r.p = Len(s) + 1 THEN [ok |-> TRUE, v |-> r.v]
        ELSE [ok |-> FALSE, v |-> PyNone]

(***************************************************************************)
(* _infer_duckdb_type                                                      *)
(***************************************************************************)
\* infer_duckdb_type deciding a list of scalars by its first item alone.
infer_by_first_item(sample) ==
    IF IsInt(sample) THEN "BIGINT"
    ELSE IF sample.k = "float" THEN "DOUBLE"
    ELSE IF sample.k = "str" THEN "VARCHAR"
    ELSE IF sample.k = "list" THEN
        IF Len(sample.xs) = 0 THEN "VARCHAR"
        ELSE IF sample.xs[1].k = "list" /\ Len(sample.xs[1].xs) > 0 THEN
            IF IsNumeric(sample.xs[1].xs[1]) THEN "BIGINT" ELSE "VARCHAR"
        ELSE IF IsNumeric(sample.xs[1]) THEN "BIGINT"
        ELSE "VARCHAR"
    ELSE "VARCHAR"

infer_duckdb_type(sample) ==
    IF IsInt(sample) THEN "BIGINT"
    ELSE IF sample.k = "float" THEN "DOUBLE"
    ELSE IF sample.k = "str" THEN "VARCHAR"
    ELSE IF sample.k = "list" THEN
        IF Len(sample.xs) = 0 THEN "VARCHAR"
        ELSE IF sample.xs[1].k = "list" /\ Len(sample.xs[1].xs) > 0 THEN
            IF IsNumeric(sample.xs[1].xs[1]) THEN "BIGINT" ELSE "VARCHAR"
        ELSE IF \A i \in 1..Len(sample.xs) : IsNumeric(sample.xs[i]) THEN "BIGINT"
        ELSE "VARCHAR"
    ELSE "VARCHAR"

(***************************************************************************)
(* _process_field_value: [ok, v]; ok is FALSE when it raises.              *)
(***************************************************************************)
\* process_field_value unwrapping every list of one item.
process_unwrapping_any(value, field) ==
    IF value.k = "none" THEN [ok |-> TRUE, v |-> PyNone]
    ELSE IF value.k = "list" THEN
        IF Len(value.xs) = 0 THEN [ok |-> TRUE, v |-> PyNone]
        ELSE IF field = "time_unix_usec" /\ value.xs[1].k = "list" THEN
            IF Len(value.xs[1].xs) = 0 \/ ~IsNumeric(value.xs[1].xs[1])
            THEN [ok |-> FALSE, v |-> PyNone]
            ELSE [ok |-> TRUE, v |-> value.xs[1].xs[1]]
        ELSE IF Len(value.xs) = 1
            THEN [ok |-> TRUE, v |-> value.xs[1]]
        ELSE [ok |-> TRUE, v |-> PyStr(json_dumps(value))]
    ELSE IF IsScalar(value) THEN [ok |-> TRUE, v |-> value]
    ELSE [ok |-> TRUE, v |-> PyStr(json_dumps(value))]

process_field_value(value, field) ==
    IF value.k = "none" THEN [ok |-> TRUE, v |-> PyNone]
    ELSE IF value.k = "list" THEN
        IF Len(value.xs) = 0 THEN [ok |-> TRUE, v |-> PyNone]
        ELSE IF field = "time_unix_usec" /\ value.xs[1].k = "list" THEN
            IF Len(value.xs[1].xs) = 0 \/ ~IsNumeric(value.xs[1].xs[1])
            THEN [ok |-> FALSE, v |-> PyNone]
            ELSE [ok |-> TRUE, v |-> value.xs[1].xs[1]]
        ELSE IF Len(value.xs) = 1 /\ IsScalar(value.xs[1])
            THEN [ok |-> TRUE, v |-> value.xs[1]]
        ELSE [ok |-> TRUE, v |-> PyStr(json_dumps(value))]
    ELSE IF IsScalar(value) THEN [ok |-> TRUE, v |-> value]
    ELSE [ok |-> TRUE, v |-> PyStr(json_dumps(value))]

(***************************************************************************)
(* The DuckDB store behind a connection.  A table is [cols, rows]: cols    *)
(* the declared columns in order, each [name, type]; rows the rows in      *)
(* insertion order, each a function from the column names to the stored    *)
(* values.  A statement that fails leaves the store as it was.             *)
(***************************************************************************)
NoTables == [t \in {} |-> 0]

ColNames(t) == {t.cols[i].name : i \in 1..Len(t.cols)}
TypeOf(t, c) == t.cols[CHOOSE i \in 1..Len(t.cols) : t.cols[i].name = c].type

\* The integer a text spells, for the texts of one digit.
Digits == 0..9
IsIntText(s) == \E d \in Digits : s = <<ToString(d)>>
IntOfText(s) == CHOOSE d \in Digits : s = <<ToString(d)>>

\* DOUBLE -> BIGINT rounds to the nearest integer, halves to even.
RoundTenths(t) ==
    LET q == t \div 10
        r == t % 10
    IN  IF r < 5 THEN q
        ELSE IF r > 5 THEN q + 1
        ELSE IF q % 2 = 0 THEN q ELSE q + 1

\* The implicit cast an INSERT applies to a bound parameter: [ok, v];
\* ok is FALSE for a Conversion Error.
Cast(type, v) ==
    IF v.k = "none" THEN [ok |-> TRUE, v |-> PyNone]
    ELSE IF type = "BIGINT" THEN
        CASE v.k = "int" -> [ok |-> TRUE, v |-> v]
          [] v.k = "bool" -> [ok |-> TRUE, v |-> PyInt(v.n)]
          [] v.k = "float" -> [ok |-> TRUE, v |-> PyInt(RoundTenths(v.n))]
          [] v.k = "str" /\ IsIntText(v.s) -> [ok |-> TRUE, v |-> PyInt(IntOfText(v.s))]
          [] OTHER -> [ok |-> FALSE, v |-> PyNone]
    ELSE IF type = "DOUBLE" THEN
        CASE v.k \in {"float", "nan"} -> [ok |-> TRUE, v |-> v]
          [] v.k \in {"int", "bool"} -> [ok |-> TRUE, v |-> PyFloat(10 * v.n)]
          [] v.k = "str" /\ IsIntText(v.s) -> [ok |-> TRUE, v |-> PyFloat(10 * IntOfText(v.s))]
          [] OTHER -> [ok |-> FALSE, v |-> PyNone]
    ELSE IF type = "BOOLEAN" THEN
        CASE v.k = "bool" -> [ok |-> TRUE, v |-> v]
          [] v.k \in {"int", "float"} -> [ok |-> TRUE, v |-> PyBool(v.n # 0)]
          [] OTHER -> [ok |-> FALSE, v |-> PyNone]
    ELSE \* VARCHAR
        CASE v.k = "str" -> [ok |-> TRUE, v |-> v]
          [] v.k \in {"int", "bool", "float"} -> [ok |-> TRUE, v |-> PyStr(json_dumps(v))]
          [] v.k = "nan" -> [ok |-> TRUE, v |-> PyStr(<<"nan">>)]
          [] OTHER -> [ok |-> FALSE, v |-> PyNone]

\* CREATE OR REPLACE TABLE "name" (cols): a table that exists is dropped.
CreateOrReplaceTable(tabs, name, cols) ==
    [t \in DOMAIN tabs \cup {name} |->
        IF t = name THEN [cols |-> cols, rows |-> <<>>] ELSE tabs[t]]

\* CREATE TABLE IF NOT EXISTS "name" (cols): nothing happens to a table
\* that exists.
CreateTableIfNotExists(tabs, name, cols) ==
    IF name \in DOMAIN tabs THEN tabs
    ELSE [t \in DOMAIN tabs \cup {name} |->
            IF t = name THEN [cols |-> cols, rows |-> <<>>] ELSE tabs[t]]

\* InsertRow putting the new row in front of the table's rows.
InsertRowFirst(tabs, name, fields, values) ==
    IF name \notin DOMAIN tabs THEN [ok |-> FALSE, tabs |-> tabs]
    ELSE LET t == tabs[name]
         IN  IF ~(fields \subseteq ColNames(t)) THEN [ok |-> FALSE, tabs |-> tabs]
             ELSE IF \E f \in fields : ~Cast(TypeOf(t, f), values[f]).ok
                 THEN [ok |-> FALSE, tabs |-> tabs]
             ELSE LET row == [c \in ColNames(t) |->
                                 IF c \in fields THEN Cast(TypeOf(t, c), values[c]).v
                                 ELSE PyNone]
                  IN  [ok |-> TRUE,
                       tabs |-> [tabs EXCEPT ![name].rows = <<row>> \o @]]

\* InsertRow widening to VARCHAR a column that cannot take the value.
InsertRowWidening(tabs, name, fields, values) ==
    IF name \notin DOMAIN tabs THEN [ok |-> FALSE, tabs |-> tabs]
    ELSE LET t == tabs[name]
         IN  IF ~(fields \subseteq ColNames(t)) THEN [ok |-> FALSE, tabs |-> tabs]
             ELSE LET bad == {f \in fields : ~Cast(TypeOf(t, f), values[f]).ok}
                      row == [c \in ColNames(t) |->
                                 IF c \in bad THEN values[c]
                                 ELSE IF c \in fields THEN Cast(TypeOf(t, c), values[c]).v
                                 ELSE PyNone]
                  IN  [ok |-> TRUE,
                       tabs |-> [tabs EXCEPT ![name] =
                           [cols |-> [i \in 1..Len(t.cols) |->
                                        IF t.cols[i].name \in bad
                                        THEN [name |-> t.cols[i].name, type |-> "VARCHAR"]
                                        ELSE t.cols[i]],
                            rows |-> Append(t.rows, row)]]]

\* INSERT INTO "name" (fields) VALUES (?, ...): [ok, tabs].  It fails when
\* the table or one of the named columns does not exist or a value cannot
\* be cast to its column's type; a column that is not named gets NULL.
InsertRow(tabs, name, fields, values) ==
    IF name \notin DOMAIN tabs THEN [ok |-> FALSE, tabs |-> tabs]
    ELSE LET t == tabs[name]
         IN  IF ~(fields \subseteq ColNames(t)) THEN [ok |-> FALSE, tabs |-> tabs]
             ELSE IF \E f \in fields : ~Cast(TypeOf(t, f), values[f]).ok
                 THEN [ok |-> FALSE, tabs |-> tabs]
             ELSE LET row == [c \in ColNames(t) |->
                                 IF c \in fields THEN Cast(TypeOf(t, c), values[c]).v
                                 ELSE PyNone]
                  IN  [ok |-> TRUE,
                       tabs |-> [tabs EXCEPT ![name].rows = Append(@, row)]]

(***************************************************************************)
(* _create_table_for_message.  fields is the list of field names,          *)
(* sample_row a function from field names to values, fault whether the     *)
(* store raises duckdb.Error on the CREATE statement.                      *)
(* Result: [ok, issued, tabs, known]; issued says that the CREATE          *)
(* statement was executed, ok is FALSE when the method raises.             *)
(***************************************************************************)
TimeOverrideNames == {"timeus", "time_boot_ms", "timestamp"}

\* str.lower, on the field names of the model
Lower(field) ==
    CASE field = "TimeUS" -> "timeus"
      [] field = "Timestamp" -> "timestamp"
      [] OTHER -> field

\* column_type comparing the field's name as it is written.
column_type_exact_name(field, sample) ==
    IF field \in TimeOverrideNames THEN "BIGINT" ELSE infer_duckdb_type(sample)

column_type(field, sample) ==
    IF Lower(field) \in TimeOverrideNames THEN "BIGINT" ELSE infer_duckdb_type(sample)

\* create_table_for_message marking the message known before the CREATE
\* statement has succeeded.
create_table_marking_first(tabs, known, msg_name, fields, sample_row, fault) ==
    IF msg_name = "" \/ fields = <<>> \/ DOMAIN sample_row = {}
        THEN [ok |-> FALSE, issued |-> FALSE, tabs |-> tabs, known |-> known]
    ELSE IF \E j \in 1..Len(fields) : fields[j] \notin DOMAIN sample_row
        THEN [ok |-> FALSE, issued |-> FALSE, tabs |-> tabs, known |-> known \cup {msg_name}]
    ELSE IF fault
        THEN [ok |-> FALSE, issued |-> TRUE, tabs |-> tabs, known |-> known \cup {msg_name}]
    ELSE [ok |-> TRUE, issued |-> TRUE,
          tabs |-> CreateTableIfNotExists(tabs, msg_name,
                      [j \in 1..Len(fields) |->
                          [name |-> fields[j],
                           type |-> column_type(fields[j], sample_row[fields[j]])]]),
          known |-> known \cup {msg_name}]

create_table_for_message(tabs, known, msg_name, fields, sample_row, fault) ==
    IF msg_name = "" \/ fields = <<>> \/ DOMAIN sample_row = {}
        THEN [ok |-> FALSE, issued |-> FALSE, tabs |-> tabs, known |-> known]
    ELSE IF \E j \in 1..Len(fields) : fields[j] \notin DOMAIN sample_row
        THEN [ok |-> FALSE, issued |-> FALSE, tabs |-> tabs, known |-> known]
    ELSE IF fault
        THEN [ok |-> FALSE, issued |-> TRUE, tabs |-> tabs, known |-> known]
    ELSE [ok |-> TRUE, issued |-> TRUE,
          tabs |-> CreateTableIfNotExists(tabs, msg_name,
                      [j \in 1..Len(fields) |->
                          [name |-> fields[j],
                           type |-> column_type(fields[j], sample_row[fields[j]])]]),
          known |-> known \cup {msg_name}]

(***************************************************************************)
(* store_flight_data.  A payload is the list of its messages in the        *)
(* mapping's order, each [name, data]; data is the list of the message's   *)
(* fields in order, each [f, col]: the field's name and its column of raw  *)
(* values.                                                                 *)
(***************************************************************************)
FieldList(data) == [j \in 1..Len(data) |-> data[j].f]
FieldSet(data) == {data[j].f : j \in 1..Len(data)}
ColumnOf(data, f) == data[CHOOSE j \in 1..Len(data) : data[j].f = f].col
SetMax(S) == CHOOSE x \in S : \A y \in S : y <= x
num_rows(data) ==
    IF data = <<>> THEN 0 ELSE SetMax({Len(data[j].col) : j \in 1..Len(data)})

\* value is None or isinstance(value, (int, float, str, bool, list))
IsAllowedCell(v) == v.k \in {"none", "int", "bool", "float", "str", "list"}

\* Row i (from 1): the fields whose column reaches i, normalized.
build_row(data, i) ==
    [f \in {g \in FieldSet(data) : i <= Len(ColumnOf(data, g))} |->
        process_field_value(ColumnOf(data, f)[i], f).v]

\* build_rows with the rows handed on whatever validation said.
build_rows_unchecked(data) ==
    [ok |-> TRUE,
     rows |-> [i \in 1..num_rows(data) |-> build_row(data, i)]]

\* [ok, rows]: ok is FALSE when validating or normalizing a cell raises.
build_rows(data) ==
    [ok |-> \A j \in 1..Len(data) : \A i \in 1..Len(data[j].col) :
                /\ IsAllowedCell(data[j].col[i])
                /\ process_field_value(data[j].col[i], data[j].f).ok,
     rows |-> [i \in 1..num_rows(data) |-> build_row(data, i)]]

\* values = [row.get(f) for f in fields]
row_values(row, fields) ==
    [f \in fields |-> IF f \in DOMAIN row THEN row[f] ELSE PyNone]

\* insert_rows going on with the next row after an insert raised.
RECURSIVE insert_rows_skipping(_, _, _, _, _)
insert_rows_skipping(tabs, name, fields, rows, i) ==
    IF i > Len(rows) THEN [ok |-> TRUE, n |-> 0, tabs |-> tabs]
    ELSE LET r == InsertRow(tabs, name, fields, row_values(rows[i], fields))
             rest == insert_rows_skipping(r.tabs, name, fields, rows, i + 1)
         IN  [ok |-> r.ok /\ rest.ok,
              n |-> rest.n + (IF r.ok THEN 1 ELSE 0),
              tabs |-> rest.tabs]

\* The insert loop from row i on: [ok, n, tabs]; n rows were inserted, ok
\* is FALSE when an insert raised, which ends the loop.
RECURSIVE insert_rows(_, _, _, _, _)
insert_rows(tabs, name, fields, rows, i) ==
    IF i > Len(rows) THEN [ok |-> TRUE, n |-> 0, tabs |-> tabs]
    ELSE LET r == InsertRow(tabs, name, fields, row_values(rows[i], fields))
         IN  IF ~r.ok THEN [ok |-> FALSE, n |-> 0, tabs |-> tabs]
             ELSE LET rest == insert_rows(r.tabs, name, fields, rows, i + 1)
                  IN  [rest EXCEPT !.n = @ + 1]

\* One entry of the call's log: what the loop did with one message.
\*   outcome: "ok", "skipped" (no rows), "invalid" (validation or
\*   normalization raised), "schema" (table creation raised before its
\*   statement), "create" (the CREATE statement raised), "insert"
\*   built: rows built; issued: a CREATE statement was executed;
\*   inserted: rows inserted; fields: the columns the INSERT names
LogEntry(name, outcome, built, issued, inserted, fields) ==
    [name |-> name, outcome |-> outcome, built |-> built, issued |-> issued,
     inserted |-> inserted, fields |-> fields]

\* store_message taking the last built row as the sample row.
store_message_sampling_last(st, msg, fault) ==
    IF msg.data = <<>> THEN
        [st EXCEPT !.err = "FlightDataDBError",
                   !.log = Append(@, LogEntry(msg.name, "invalid", 0, FALSE, 0, {}))]
    ELSE IF num_rows(msg.data) = 0 THEN
        [st EXCEPT !.log = Append(@, LogEntry(msg.name, "skipped", 0, FALSE, 0, {}))]
    ELSE
    LET fields == FieldSet(msg.data)
        b == build_rows(msg.data)
    IN  IF ~b.ok THEN
            [st EXCEPT !.err = "FlightDataDBError",
                       !.log = Append(@, LogEntry(msg.name, "invalid", 0, FALSE, 0, fields))]
        ELSE
        LET c == IF msg.name \in st.known
                 THEN [ok |-> TRUE, issued |-> FALSE, tabs |-> st.tabs, known |-> st.known]
                 ELSE create_table_for_message(st.tabs, st.known, msg.name,
                          FieldList(msg.data), b.rows[Len(b.rows)], fault)
        IN  IF ~c.ok THEN
                [st EXCEPT !.tabs = c.tabs, !.known = c.known,
                           !.err = "FlightDataDBError",
                           !.log = Append(@, LogEntry(msg.name,
                                       IF c.issued THEN "create" ELSE "schema",
                                       Len(b.rows), c.issued, 0, fields))]
            ELSE
            LET ins == insert_rows(c.tabs, msg.name, fields, b.rows, 1)
            IN  [tabs |-> ins.tabs, known |-> c.known,
                 err |-> IF ins.ok THEN "none" ELSE "FlightDataDBError",
                 log |-> Append(st.log, LogEntry(msg.name,
                             IF ins.ok THEN "ok" ELSE "insert",
                             Len(b.rows), c.issued, ins.n, fields))]

\* store_message raising for a message of no rows instead of passing it by.
store_message_rejecting_empty(st, msg, fault) ==
    IF msg.data = <<>> THEN
        [st EXCEPT !.err = "FlightDataDBError",
                   !.log = Append(@, LogEntry(msg.name, "invalid", 0, FALSE, 0, {}))]
    ELSE IF num_rows(msg.data) = 0 THEN
        [st EXCEPT !.err = "FlightDataDBError",
                   !.log = Append(@, LogEntry(msg.name, "skipped", 0, FALSE, 0, {}))]
    ELSE
    LET fields == FieldSet(msg.data)
        b == build_rows(msg.data)
    IN  IF ~b.ok THEN
            [st EXCEPT !.err = "FlightDataDBError",
                       !.log = Append(@, LogEntry(msg.name, "invalid", 0, FALSE, 0, fields))]
        ELSE
        LET c == IF msg.name \in st.known
                 THEN [ok |-> TRUE, issued |-> FALSE, tabs |-> st.tabs, known |-> st.known]
                 ELSE create_table_for_message(st.tabs, st.known, msg.name,
                          FieldList(msg.data), b.rows[1], fault)
        IN  IF ~c.ok THEN
                [st EXCEPT !.tabs = c.tabs, !.known = c.known,
                           !.err = "FlightDataDBError",
                           !.log = Append(@, LogEntry(msg.name,
                                       IF c.issued THEN "create" ELSE "schema",
                                       Len(b.rows), c.issued, 0, fields))]
            ELSE
            LET ins == insert_rows(c.tabs, msg.name, fields, b.rows, 1)
            IN  [tabs |-> ins.tabs, known |-> c.known,
                 err |-> IF ins.ok THEN "none" ELSE "FlightDataDBError",
                 log |-> Append(st.log, LogEntry(msg.name,
                             IF ins.ok THEN "ok" ELSE "insert",
                             Len(b.rows), c.issued, ins.n, fields))]

\* The body of the loop for one message, from st = [tabs, known, err, log].
store_message(st, msg, fault) ==
    IF msg.data = <<>> THEN
        [st EXCEPT !.err = "FlightDataDBError",
                   !.log = Append(@, LogEntry(msg.name, "invalid", 0, FALSE, 0, {}))]
    ELSE IF num_rows(msg.data) = 0 THEN
        [st EXCEPT !.log = Append(@, LogEntry(msg.name, "skipped", 0, FALSE, 0, {}))]
    ELSE
    LET fields == FieldSet(msg.data)
        b == build_rows(msg.data)
    IN  IF ~b.ok THEN
            [st EXCEPT !.err = "FlightDataDBError",
                       !.log = Append(@, LogEntry(msg.name, "invalid", 0, FALSE, 0, fields))]
        ELSE
        LET c == IF msg.name \in st.known
                 THEN [ok |-> TRUE, issued |-> FALSE, tabs |-> st.tabs, known |-> st.known]
                 ELSE create_table_for_message(st.tabs, st.known, msg.name,
                          FieldList(msg.data), b.rows[1], fault)
        IN  IF ~c.ok THEN
                [st EXCEPT !.tabs = c.tabs, !.known = c.known,
                           !.err = "FlightDataDBError",
                           !.log = Append(@, LogEntry(msg.name,
                                       IF c.issued THEN "create" ELSE "schema",
                                       Len(b.rows), c.issued, 0, fields))]
            ELSE
            LET ins == insert_rows(c.tabs, msg.name, fields, b.rows, 1)
            IN  [tabs |-> ins.tabs, known |-> c.known,
                 err |-> IF ins.ok THEN "none" ELSE "FlightDataDBError",
                 log |-> Append(st.log, LogEntry(msg.name,
                             IF ins.ok THEN "ok" ELSE "insert",
                             Len(b.rows), c.issued, ins.n, fields))]

\* store_messages taking up the remaining messages after a raise, the
\* first error kept for the caller.
RECURSIVE store_messages_continuing(_, _, _, _)
store_messages_continuing(st, payload, i, fault) ==
    IF i > Len(payload) THEN st
    ELSE LET r == store_message([st EXCEPT !.err = "none"], payload[i], fault)
         IN  store_messages_continuing(
                 [r EXCEPT !.err = IF st.err # "none" THEN st.err ELSE r.err],
                 payload, i + 1, fault)

\* store_messages stopping at a storage failure only: a message that
\* fails validation or table set-up is given up and the next one taken up.
RECURSIVE store_messages_skip_invalid(_, _, _, _)
store_messages_skip_invalid(st, payload, i, fault) ==
    IF i > Len(payload) THEN st
    ELSE LET r == store_message([st EXCEPT !.err = "none"], payload[i], fault)
             e == r.log[Len(r.log)].outcome
         IN  IF e \in {"create", "insert"} THEN r
             ELSE store_messages_skip_invalid(
                      [r EXCEPT !.err = IF st.err # "none" THEN st.err ELSE r.err],
                      payload, i + 1, fault)

\* for msg_name, msg_data in parsed_json.items(): the first raise ends it.
RECURSIVE store_messages(_, _, _, _)
store_messages(st, payload, i, fault) ==
    IF i > Len(payload) THEN st
    ELSE LET r == store_message(st, payload[i], fault)
         IN  IF r.err # "none" THEN r ELSE store_messages(r, payload, i + 1, fault)

(***************************************************************************)
(* The statements query is given.  A statement is [kind, table, column,    *)
(* value, other, other_column]:                                            *)
(*   "select"  SELECT * FROM "table"                                       *)
(*   "where"   SELECT * FROM "table" WHERE "column" = value, the value a   *)
(*             number or a text in quotes                                  *)
(*   "join"    SELECT * FROM "table" t JOIN "other" o                      *)
(*             ON t."column" = o."other_column"                            *)
(*   "syntax"  a text that is no statement                                 *)
(*   "empty"   the empty text                                              *)
(***************************************************************************)
Statement(kind, table, column, value, other, other_column) ==
    [kind |-> kind, table |-> table, column |-> column, value |-> value,
     other |-> other, other_column |-> other_column]
SelectAll(table) == Statement("select", table, "", PyNone, "", "")
SelectWhere(table, column, value) == Statement("where", table, column, value, "", "")
SelectJoin(table, column, other, other_column) ==
    Statement("join", table, column, PyNone, other, other_column)
Malformed == Statement("syntax", "", "", PyNone, "", "")
EmptyText == Statement("empty", "", "", PyNone, "", "")

\* The declared types that hold numbers.
NumericTypes == {"BIGINT", "INTEGER", "DOUBLE"}

\* A stored number as a DOUBLE, the type both sides of a comparison of a
\* BIGINT with a DOUBLE are cast to.
AsDouble(v) == IF v.k = "int" THEN PyFloat(10 * v.n) ELSE v
\* cell = v as the store evaluates it: NULL equals nothing.
SqlEquals(cell, v) == cell.k # "none" /\ v.k # "none" /\ AsDouble(cell) = AsDouble(v)

\* The rows i.. of rows whose column equals v, in order.
RECURSIVE FilterRows(_, _, _, _)
FilterRows(rows, i, column, v) ==
    IF i > Len(rows) THEN <<>>
    ELSE (IF SqlEquals(rows[i][column], v) THEN <<rows[i]>> ELSE <<>>)
         \o FilterRows(rows, i + 1, column, v)

\* The pairs of the rows i.. of left with the rows of right that are equal
\* on the join columns, a pair being [left, right].  The store gives the
\* pairs in an order of its choosing; they are listed by left row, then by
\* right row.
RECURSIVE JoinRows(_, _, _, _, _)
JoinRows(left, i, column, right, other_column) ==
    IF i > Len(left) THEN <<>>
    ELSE [k \in 1..Len(FilterRows(right, 1, other_column, left[i][column])) |->
             [left |-> left[i],
              right |-> FilterRows(right, 1, other_column, left[i][column])[k]]]
         \o JoinRows(left, i + 1, column, right, other_column)

\* conn.execute(sql).fetchdf(): [ok, rows, diag]; ok is FALSE when the
\* store raises duckdb.Error, diag being the text of the error, which
\* starts with its kind.  A text in quotes is cast to the type of the
\* column it is compared with when the statement is bound; a number is not
\* compared with a text column, nor a numeric column with a text column.
Execute(tabs, sql) ==
    LET Fails(diag) == [ok |-> FALSE, rows |-> <<>>, diag |-> <<diag>>]
        Rows(rows) == [ok |-> TRUE, rows |-> rows, diag |-> <<>>]
        IsText(type) == type \notin NumericTypes
    IN  IF sql.kind = "syntax" THEN Fails("Parser Error")
        ELSE IF sql.table \notin DOMAIN tabs THEN Fails("Catalog Error")
        ELSE IF sql.kind = "select" THEN Rows(tabs[sql.table].rows)
        ELSE IF sql.column \notin ColNames(tabs[sql.table]) THEN Fails("Binder Error")
        ELSE IF sql.kind = "where" THEN
            LET type == TypeOf(tabs[sql.table], sql.column)
                c == Cast(type, sql.value)
            IN  IF sql.value.k = "str" THEN
                    IF ~c.ok THEN Fails("Conversion Error")
                    ELSE Rows(FilterRows(tabs[sql.table].rows, 1, sql.column, c.v))
                ELSE IF IsText(type) THEN Fails("Binder Error")
                ELSE Rows(FilterRows(tabs[sql.table].rows, 1, sql.column, sql.value))
        ELSE \* join
            IF sql.other \notin DOMAIN tabs THEN Fails("Catalog Error")
            ELSE IF sql.other_column \notin ColNames(tabs[sql.other]) THEN Fails("Binder Error")
            ELSE IF IsText(TypeOf(tabs[sql.table], sql.column))
                        # IsText(TypeOf(tabs[sql.other], sql.other_column))
                THEN Fails("Binder Error")
            ELSE Rows(JoinRows(tabs[sql.table].rows, 1, sql.column,
                               tabs[sql.other].rows, sql.other_column))

(***************************************************************************)
(* The statements of cleanup_existing_data on the store: [ok, tabs]; ok is *)
(* FALSE when the statement raises, which leaves the store as it was.      *)
(***************************************************************************)
\* CREATE TABLE "name" (cols)
CreateTable(tabs, name, cols) ==
    IF name \in DOMAIN tabs THEN [ok |-> FALSE, tabs |-> tabs]
    ELSE [ok |-> TRUE, tabs |-> CreateTableIfNotExists(tabs, name, cols)]

\* DROP TABLE "name"
DropTable(tabs, name) ==
    IF name \notin DOMAIN tabs THEN [ok |-> FALSE, tabs |-> tabs]
    ELSE [ok |-> TRUE, tabs |-> [t \in DOMAIN tabs \ {name} |-> tabs[t]]]

\* ALTER TABLE "from" RENAME TO "to"
RenameTable(tabs, from, to) ==
    IF from \notin DOMAIN tabs \/ to \in DOMAIN tabs THEN [ok |-> FALSE, tabs |-> tabs]
    ELSE [ok |-> TRUE,
          tabs |-> [t \in (DOMAIN tabs \ {from}) \cup {to} |->
                      IF t = to THEN tabs[from] ELSE tabs[t]]]

(***************************************************************************)
(* cleanup_existing_data, for one table.                                   *)
(***************************************************************************)
temp_table_name(table_name) == table_name \o "_temp"

\* SELECT * ... fetchdf() and iterrows(): the rows in insertion order; the
\* NULL of a numeric column is NaN in the frame, that of a text column None.
fetchdf(t) ==
    [r \in 1..Len(t.rows) |->
        [c \in ColNames(t) |->
            IF t.rows[r][c].k = "none" /\ TypeOf(t, c) \in NumericTypes
            THEN PyNaN ELSE t.rows[r][c]]]

\* int(float(str(value))): [ok, v]; ok is FALSE for a ValueError.  float
\* takes the texts of a one-digit integer and of a float of one digit
\* before and after the point; int drops the fraction.
int_of_float_of_str(value) ==
    CASE value.k = "int" -> [ok |-> TRUE, v |-> value]
      [] value.k = "float" ->
            [ok |-> TRUE,
             v |-> PyInt(IF value.n >= 0 THEN value.n \div 10 ELSE -((-value.n) \div 10))]
      [] value.k = "str" /\ Len(value.s) = 1 /\ IsDigit(value.s[1]) ->
            [ok |-> TRUE, v |-> PyInt(DigitOf(value.s[1]))]
      [] value.k = "str" /\ Len(value.s) = 3 /\ IsDigit(value.s[1])
            /\ value.s[2] = "." /\ IsDigit(value.s[3]) ->
            [ok |-> TRUE, v |-> PyInt(DigitOf(value.s[1]))]
      [] OTHER -> [ok |-> FALSE, v |-> PyNone]

\* value.startswith('[') and value.endswith(']')
LooksLikeArray(value) ==
    value.k = "str" /\ Len(value.s) >= 1 /\ value.s[1] = "[" /\ value.s[Len(value.s)] = "]"

\* first_element with the last element in the place of the first.
last_element(parsed) ==
    LET e == parsed.xs[Len(parsed.xs)]
    IN  IF e.k = "list" /\ Len(e.xs) > 0 THEN e.xs[Len(e.xs)] ELSE e

\* parsed[0][0] if parsed[0] is a non-empty list, else parsed[0]
first_element(parsed) ==
    IF parsed.xs[1].k = "list" /\ Len(parsed.xs[1].xs) > 0
    THEN parsed.xs[1].xs[1] ELSE parsed.xs[1]

\* clean_cell taking every integer up to the next one.
clean_cell_next_integer(field_type, value) ==
    IF field_type \in {"BIGINT", "INTEGER"} /\ value.k = "int" THEN PyInt(value.n + 1)
    ELSE IF field_type \in {"BIGINT", "INTEGER"} THEN PyNone
    ELSE value

\* The value cleanup_existing_data writes for a cell of a column declared
\* field_type.
clean_cell(field_type, value) ==
    IF field_type \in {"BIGINT", "INTEGER"} THEN
        LET decoded ==
                IF LooksLikeArray(value) THEN
                    LET parsed == json_loads(value.s)
                    IN  IF ~parsed.ok THEN PyNone
                        ELSE IF parsed.v.k = "list" /\ Len(parsed.v.xs) > 0
                            THEN first_element(parsed.v)
                        ELSE value
                ELSE value
        IN  IF decoded.k = "none" THEN PyNone
            ELSE IF int_of_float_of_str(decoded).ok THEN int_of_float_of_str(decoded).v
            ELSE PyNone
    ELSE value

\* The columns of the shadow table: INTEGER is declared BIGINT.
shadow_columns(cols) ==
    [i \in 1..Len(cols) |->
        [name |-> cols[i].name,
         type |-> IF cols[i].type \in {"BIGINT", "INTEGER"} THEN "BIGINT" ELSE cols[i].type]]

\* cleaned_rows with the rows in reverse order.
cleaned_rows_reversed(t) ==
    [r \in 1..Len(t.rows) |->
        [c \in ColNames(t) |-> clean_cell(TypeOf(t, c), fetchdf(t)[Len(t.rows) + 1 - r][c])]]

\* cleaned_rows
cleaned_rows(t) ==
    [r \in 1..Len(t.rows) |->
        [c \in ColNames(t) |-> clean_cell(TypeOf(t, c), fetchdf(t)[r][c])]]

\* A parameter as the store takes it: the client binds NaN as NULL or as
\* NaN, depending on its version (nan_as_null).
bind_param(v, nan_as_null) == IF v.k = "nan" /\ nan_as_null THEN PyNone ELSE v

\* No statement is made to fail.
NoFault == [table |-> "", at |-> "none", row |-> 0]
\* The statement fault names of table_name is made to raise.
FaultAt(fault, table_name, at) == fault.table = table_name /\ fault.at = at

\* The insert loop into the shadow table: [ok, tabs, injected].
RECURSIVE insert_cleaned(_, _, _, _, _, _)
insert_cleaned(tabs, name, rows, i, fail_row, nan_as_null) ==
    IF i > Len(rows) THEN [ok |-> TRUE, tabs |-> tabs, injected |-> FALSE]
    ELSE IF i = fail_row THEN [ok |-> FALSE, tabs |-> tabs, injected |-> TRUE]
    ELSE LET r == InsertRow(tabs, name, DOMAIN rows[i],
                            [c \in DOMAIN rows[i] |-> bind_param(rows[i][c], nan_as_null)])
         IN  IF ~r.ok THEN [ok |-> FALSE, tabs |-> r.tabs, injected |-> FALSE]
             ELSE insert_cleaned(r.tabs, name, rows, i + 1, fail_row, nan_as_null)

\* The body of the loop over the tables: [tabs, outcome, injected].
\* outcome is "ok", "empty" (no rows, skipped) or the statement that
\* raised: "select", "create", "insert", "drop", "rename".
cleanup_table(tabs, table_name, fault, nan_as_null) ==
    LET temp == temp_table_name(table_name)
        Out(t, o, j) == [tabs |-> t, outcome |-> o, injected |-> j]
    IN  IF table_name \notin DOMAIN tabs THEN Out(tabs, "select", FALSE)
        ELSE IF tabs[table_name].rows = <<>> THEN Out(tabs, "empty", FALSE)
        ELSE IF FaultAt(fault, table_name, "create") THEN Out(tabs, "create", TRUE)
        ELSE
        LET c == CreateTable(tabs, temp, shadow_columns(tabs[table_name].cols))
        IN  IF ~c.ok THEN Out(tabs, "create", FALSE)
            ELSE
            LET ins == insert_cleaned(c.tabs, temp, cleaned_rows(tabs[table_name]), 1,
                           IF FaultAt(fault, table_name, "insert") THEN fault.row ELSE 0,
                           nan_as_null)
            IN  IF ~ins.ok THEN Out(ins.tabs, "insert", ins.injected)
                ELSE IF FaultAt(fault, table_name, "drop") THEN Out(ins.tabs, "drop", TRUE)
                ELSE
                LET d == DropTable(ins.tabs, table_name)
                IN  IF ~d.ok THEN Out(ins.tabs, "drop", FALSE)
                    ELSE IF FaultAt(fault, table_name, "rename")
                        THEN Out(d.tabs, "rename", TRUE)
                    ELSE
                    LET n == RenameTable(d.tabs, temp, table_name)
                    IN  IF ~n.ok THEN Out(d.tabs, "rename", FALSE)
                        ELSE Out(n.tabs, "ok", FALSE)

\* cleanup_tables raising to the caller at the first table that fails.
RECURSIVE cleanup_tables_stopping(_, _, _, _, _)
cleanup_tables_stopping(st, tables, i, fault, nan_as_null) ==
    IF i > Len(tables) \/ st.err # "none" THEN st
    ELSE LET r == cleanup_table(st.tabs, tables[i], fault, nan_as_null)
         IN  cleanup_tables_stopping(
                 [tabs |-> r.tabs,
                  err |-> IF r.outcome \in {"ok", "empty"} THEN "none" ELSE "FlightDataDBError",
                  log |-> Append(st.log, [name |-> tables[i], outcome |-> r.outcome,
                                          injected |-> r.injected])],
                 tables, i + 1, fault, nan_as_null)

\* The loop over the tables of the catalog, in the order tables;
\* st = [tabs, err, log].
RECURSIVE cleanup_tables(_, _, _, _, _)
cleanup_tables(st, tables, i, fault, nan_as_null) ==
    IF i > Len(tables) THEN st
    ELSE LET r == cleanup_table(st.tabs, tables[i], fault, nan_as_null)
         IN  cleanup_tables(
                 [tabs |-> r.tabs, err |-> st.err,
                  log |-> Append(st.log, [name |-> tables[i], outcome |-> r.outcome,
                                          injected |-> r.injected])],
                 tables, i + 1, fault, nan_as_null)

(***************************************************************************)
(* The engine.  Every public method is one action: it runs the whole       *)
(* method and leaves in call its arguments, the catalog and the tables it  *)
(* started from, and its outcome (err: "none" or the class of the          *)
(* exception raised to the caller).  Return hands the outcome to the       *)
(* caller, after which the next call can start.                            *)
(***************************************************************************)
AllSessions == {"s1", "s2"}
NoCall == [op |-> "none"]
NoCatalog == [s \in {} |-> {}]

Init ==
    /\ connections = {}
    /\ message_tables = NoCatalog
    /\ db = [s \in AllSessions |-> NoTables]
    /\ call = NoCall

\* _get_connection giving a new session the only entry of a new catalog.
get_connection_new_catalog(session_id) ==
    [s \in connections \cup {session_id} |->
        IF session_id \in connections THEN message_tables[s] ELSE {}]

\* _get_connection connecting anew on every call.
get_connection_reconnecting(session_id) ==
    [s \in connections \cup {session_id} |->
        IF s # session_id THEN message_tables[s] ELSE {}]

\* _get_connection: the catalog after it, a new session's being empty.
get_connection(session_id) ==
    [s \in connections \cup {session_id} |->
        IF s \in connections THEN message_tables[s] ELSE {}]

\* The catalog entry of a session, none read as empty.
Known(session_id) ==
    IF session_id \in DOMAIN message_tables THEN message_tables[session_id] ELSE {}

RowsWithin(tabs) == \A t \in DOMAIN tabs : Len(tabs[t].rows) <= MaxRows

store_flight_data(session_id, payload, fault) ==
    /\ call.op = "none"
    /\ IF session_id = "" \/ payload = <<>> THEN
           /\ call' = [op |-> "store", sid |-> session_id, payload |-> payload, fault |-> fault,
                       err |-> "DataValidationError", log |-> <<>>,
                       pre_open |-> session_id \in connections,
                       pre_known |-> Known(session_id),
                       pre_tabs |-> IF session_id \in AllSessions
                                    THEN db[session_id] ELSE NoTables]
           /\ UNCHANGED <<connections, message_tables, db>>
       ELSE
           \E r \in {store_messages([tabs |-> db[session_id], known |-> Known(session_id),
                                     err |-> "none", log |-> <<>>], payload, 1, fault)} :
               /\ RowsWithin(r.tabs)
               /\ fault => \E i \in 1..Len(r.log) : r.log[i].outcome = "create"
               /\ connections' = connections \cup {session_id}
               /\ message_tables' = [get_connection(session_id) EXCEPT ![session_id] = r.known]
               /\ db' = [db EXCEPT ![session_id] = r.tabs]
               /\ call' = [op |-> "store", sid |-> session_id, payload |-> payload, fault |-> fault,
                           err |-> r.err, log |-> r.log,
                           pre_open |-> session_id \in connections,
                           pre_known |-> Known(session_id),
                           pre_tabs |-> db[session_id]]

\* query_empty_on_failure: query catching the store's error and handing
\* the caller an empty frame.
query_empty_on_failure(session_id, sql) ==
    /\ call.op = "none"
    /\ session_id # "" /\ sql.kind # "empty"
    /\ connections' = connections \cup {session_id}
    /\ message_tables' = get_connection(session_id)
    /\ UNCHANGED db
    /\ \E r \in {Execute(db[session_id], sql)} :
           call' = [op |-> "query", sid |-> session_id, sql |-> sql, table |-> sql.table,
                    err |-> "none", message |-> <<>>,
                    returned |-> TRUE, result |-> r.rows,
                    pre_open |-> session_id \in connections,
                    pre_known |-> Known(session_id),
                    pre_tabs |-> db[session_id]]

\* query; sql is the statement.  returned says that a frame is returned to
\* the caller, result its rows; message is the text of the exception raised.
query(session_id, sql) ==
    /\ call.op = "none"
    /\ IF session_id = "" \/ sql.kind = "empty" THEN
           /\ UNCHANGED <<connections, message_tables, db>>
           /\ call' = [op |-> "query", sid |-> session_id, sql |-> sql, table |-> sql.table,
                       err |-> "DataValidationError",
                       message |-> <<IF session_id = ""
                                     THEN "Invalid session_id: must be a non-empty string"
                                     ELSE "Invalid SQL query: must be a non-empty string">>,
                       returned |-> FALSE, result |-> <<>>,
                       pre_open |-> session_id \in connections,
                       pre_known |-> Known(session_id),
                       pre_tabs |-> IF session_id \in AllSessions
                                    THEN db[session_id] ELSE NoTables]
       ELSE
           /\ connections' = connections \cup {session_id}
           /\ message_tables' = get_connection(session_id)
           /\ UNCHANGED db
           /\ \E r \in {Execute(db[session_id], sql)} :
                  call' = [op |-> "query", sid |-> session_id, sql |-> sql, table |-> sql.table,
                           err |-> IF r.ok THEN "none" ELSE "DatabaseConnectionError",
                           message |-> IF r.ok THEN <<>>
                                       ELSE <<"Failed to execute query: ">> \o r.diag,
                           returned |-> r.ok, result |-> r.rows,
                           pre_open |-> session_id \in connections,
                           pre_known |-> Known(session_id),
                           pre_tabs |-> db[session_id]]

\* get_database_information; description is what _get_message_description
\* does for the tables of the catalog: it returns "text" (the section of
\* the knowledge base), "" (no section) or "None" (no file), or it is
\* "raise": the name is found in the file as the beginning of a heading,
\* not as a heading of its own, and taking the section raises, an error
\* that is raised on as FlightDataDBError.
get_database_information(session_id, description) ==
    /\ call.op = "none"
    /\ description = "raise" =>
           session_id \in DOMAIN message_tables /\ message_tables[session_id] # {}
    /\ UNCHANGED <<connections, message_tables, db>>
    /\ LET ok == /\ session_id \in DOMAIN message_tables
                 /\ message_tables[session_id] \subseteq DOMAIN db[session_id]
                 /\ description # "raise"
       IN  call' = [op |-> "info", sid |-> session_id, description |-> description,
                    err |-> IF ok THEN "none" ELSE "FlightDataDBError",
                    result |-> IF ok
                               THEN [t \in message_tables[session_id] |->
                                        [description |-> description,
                                         schema |-> db[session_id][t].cols]]
                               ELSE NoTables,
                    pre_open |-> session_id \in connections,
                    pre_known |-> Known(session_id),
                    pre_tabs |-> db[session_id]]

\* list(self.message_tables[session_id]): the names of a set in any order
Orders(S) ==
    {o \in [1..Cardinality(S) -> S] : \A i, j \in 1..Cardinality(S) : o[i] = o[j] => i = j}

\* A NaN is among the values the insert loop binds for one of the tables.
BindsNaN(tabs, names) ==
    \E name \in names \cap DOMAIN tabs :
        \E r \in 1..Len(tabs[name].rows) : \E c \in ColNames(tabs[name]) :
            cleaned_rows(tabs[name])[r][c].k = "nan"

\* cleanup_existing_data opening the session's store before it looks the
\* session up in the catalog.
cleanup_connecting_first(session_id, tables, fault, nan_as_null) ==
    /\ call.op = "none"
    /\ tables \in Orders(Known(session_id))
    /\ nan_as_null \/ BindsNaN(db[session_id], Known(session_id))
    /\ \E r \in {cleanup_tables([tabs |-> db[session_id], err |-> "none", log |-> <<>>],
                                tables, 1, fault, nan_as_null)} :
        /\ fault # NoFault => \E i \in 1..Len(r.log) : r.log[i].injected
        /\ connections' = connections \cup {session_id}
        /\ message_tables' = get_connection(session_id)
        /\ db' = [db EXCEPT ![session_id] = r.tabs]
        /\ call' = [op |-> "cleanup", sid |-> session_id, tables |-> tables,
                    fault |-> fault, nan_as_null |-> nan_as_null,
                    err |-> r.err, log |-> r.log,
                    pre_open |-> session_id \in connections,
                    pre_known |-> Known(session_id),
                    pre_tabs |-> db[session_id]]

\* cleanup_existing_data; tables is the order in which the catalog's names
\* are visited, fault the statement that is made to raise, if any.
cleanup_existing_data(session_id, tables, fault, nan_as_null) ==
    /\ call.op = "none"
    /\ IF session_id \notin DOMAIN message_tables THEN
           /\ tables = <<>> /\ fault = NoFault /\ nan_as_null
           /\ UNCHANGED <<connections, message_tables, db>>
           /\ call' = [op |-> "cleanup", sid |-> session_id, tables |-> tables,
                       fault |-> fault, nan_as_null |-> nan_as_null,
                       err |-> "none", log |-> <<>>,
                       pre_open |-> session_id \in connections,
                       pre_known |-> Known(session_id),
                       pre_tabs |-> db[session_id]]
       ELSE
           /\ tables \in Orders(message_tables[session_id])
           /\ nan_as_null \/ BindsNaN(db[session_id], message_tables[session_id])
           /\ \E r \in {cleanup_tables([tabs |-> db[session_id], err |-> "none", log |-> <<>>],
                                       tables, 1, fault, nan_as_null)} :
               /\ fault # NoFault => \E i \in 1..Len(r.log) : r.log[i].injected
               /\ connections' = connections \cup {session_id}
               /\ message_tables' = get_connection(session_id)
               /\ db' = [db EXCEPT ![session_id] = r.tabs]
               /\ call' = [op |-> "cleanup", sid |-> session_id, tables |-> tables,
                           fault |-> fault, nan_as_null |-> nan_as_null,
                           err |-> r.err, log |-> r.log,
                           pre_open |-> session_id \in connections,
                           pre_known |-> Known(session_id),
                           pre_tabs |-> db[session_id]]

\* close; failing are the sessions whose conn.close() raises, which is
\* caught and logged before the next connection is closed.
close(failing) ==
    /\ call.op = "none"
    /\ failing \subseteq connections
    /\ connections' = {}
    /\ message_tables' = NoCatalog
    /\ UNCHANGED db
    /\ call' = [op |-> "close", sid |-> "", failing |-> failing, err |-> "none"]

Return ==
    /\ call.op # "none"
    /\ call' = NoCall
    /\ UNCHANGED <<connections, message_tables, db>>

(***************************************************************************)
(* The inputs of the model.                                                *)
(***************************************************************************)
CellInt == PyInt(1)
CellStr == PyStr(<<"x">>)
CellPair == PyList(<<PyInt(1), PyInt(1)>>)
CellDict == PyDict

Columns(cells) == UNION {[1..n -> cells] : n \in 0..MaxLen}

\* The messages called name over the field list fields, every column
\* drawn from Columns(cells).
MessagesOver(name, fields, cells) ==
    {[name |-> name,
      data |-> [j \in 1..Len(fields) |-> [f |-> fields[j], col |-> c[j]]]] :
        c \in [1..Len(fields) -> Columns(cells)]}

\* One message M of fields a and b: the rows and the schema of a table.
RowCells == {CellInt, CellPair}
RowMessages ==
    UNION {MessagesOver("M", fl, RowCells) : fl \in {<<>>, <<"a">>, <<"b">>, <<"a", "b">>}}
RowPayloads == {<<>>} \cup {<<m>> : m \in RowMessages}

Next ==
    \/ \E p \in RowPayloads, fault \in BOOLEAN : store_flight_data("s1", p, fault)
    \/ \E t \in {"M", "N"} : query("s1", SelectAll(t))
    \/ \E d \in {"text", "", "None", "raise"} : get_database_information("s1", d)
    \/ close({})
    \/ Return

Spec == Init /\ [][Next]_vars

\* Messages M and N of one field a in one payload, M first: what one
\* message's failure does to the other.  M draws on every kind of cell; N,
\* the later message, on the cells that make it valid or invalid.
BatchCells == {CellInt, CellStr, CellDict}
LaterCells == {CellInt, CellDict}
BatchMessages(name, cells) ==
    UNION {MessagesOver(name, fl, cells) : fl \in {<<>>, <<"a">>}}
BatchPayloads ==
    {<<m>> : m \in BatchMessages("M", BatchCells) \cup BatchMessages("N", LaterCells)}
    \cup {<<m, n>> : m \in BatchMessages("M", BatchCells),
                     n \in BatchMessages("N", LaterCells)}

NextBatch ==
    \/ \E p \in BatchPayloads, fault \in BOOLEAN : store_flight_data("s1", p, fault)
    \/ close({})
    \/ Return

SpecBatch == Init /\ [][NextBatch]_vars

\* Reconciliation: message M of a field a, which is an integer, a float or
\* null, and a text field b, one row a call, and message N of one integer
\* field.  The statement that is made to raise is one on table M.
CellFloat == PyFloat(15)
ReconMessages ==
    {[name |-> "M", data |-> <<[f |-> "a", col |-> <<c[1]>>], [f |-> "b", col |-> <<c[2]>>]>>] :
        c \in {<<CellInt, CellStr>>, <<CellFloat, CellStr>>, <<PyNone, PyNone>>}}
    \cup {[name |-> "N", data |-> <<[f |-> "a", col |-> <<CellInt>>]>>]}
Faults ==
    {NoFault}
    \cup {[table |-> "M", at |-> at, row |-> 0] : at \in {"create", "drop", "rename"}}
    \cup {[table |-> "M", at |-> "insert", row |-> k] : k \in 1..MaxRows}
TableOrders == UNION {Orders(S) : S \in SUBSET {"M", "N"}}

NextReconcile ==
    \/ \E m \in ReconMessages : store_flight_data("s1", <<m>>, FALSE)
    \/ \E o \in TableOrders, fault \in Faults, nan_as_null \in BOOLEAN :
           cleanup_existing_data("s1", o, fault, nan_as_null)
    \/ Return

SpecReconcile == Init /\ [][NextReconcile]_vars

\* Two sessions, each storing rows of its own message M, querying it,
\* asking for its schema and reconciling it, and close, in which closing
\* any of the connections may fail.
SessionPayloads == {<<[name |-> "M", data |-> <<[f |-> "a", col |-> <<CellInt>>]>>]>>}

NextSessions ==
    \/ \E s \in AllSessions, p \in SessionPayloads : store_flight_data(s, p, FALSE)
    \/ \E s \in AllSessions : query(s, SelectAll("M"))
    \/ \E s \in AllSessions : get_database_information(s, "text")
    \/ \E s \in AllSessions, o \in TableOrders :
           cleanup_existing_data(s, o, NoFault, TRUE)
    \/ \E failing \in SUBSET AllSessions : close(failing)
    \/ Return

SpecSessions == Init /\ [][NextSessions]_vars

\* The repair of one cell: the arrays whose text a cell may hold, the
\* spec's example [[7,8]] as a text without blanks, texts that are no
\* array, and values that are no text.
ArrayValues ==
    {PyList(<<>>),
     PyList(<<PyInt(7)>>),
     PyList(<<PyInt(7), PyInt(8)>>),
     PyList(<<PyList(<<PyInt(7), PyInt(8)>>)>>),
     PyList(<<PyList(<<PyInt(7), PyInt(8)>>), PyList(<<PyInt(9)>>)>>),
     PyList(<<PyList(<<PyInt(7)>>), PyInt(8)>>),
     PyList(<<PyFloat(15), PyInt(2)>>),
     PyList(<<PyList(<<PyFloat(15)>>)>>),
     PyList(<<PyStr(<<"3">>), PyInt(4)>>),
     PyList(<<PyStr(<<"x">>)>>),
     PyList(<<PyList(<<>>)>>),
     PyList(<<PyList(<<>>), PyInt(5)>>),
     PyList(<<PyNone, PyInt(1)>>),
     PyList(<<PyBool(TRUE)>>),
     PyList(<<PyList(<<PyList(<<PyInt(7)>>)>>)>>)}
SpecExample == PyStr(<<"[", "[", "7", ",", "8", "]", "]">>)
CellValues ==
    {PyStr(json_dumps(L)) : L \in ArrayValues}
    \cup {SpecExample,
          PyStr(<<"[", "x", "]">>), PyStr(<<"[", "7">>), PyStr(<<"x">>),
          PyStr(<<"7">>), PyStr(<<"1", ".", "5">>),
          PyInt(7), PyFloat(15), PyBool(TRUE), PyNaN, PyNone}
CellTypes == {"BIGINT", "INTEGER", "DOUBLE", "VARCHAR"}

InitCell ==
    /\ connections = {}
    /\ message_tables = NoCatalog
    /\ db = [s \in AllSessions |-> NoTables]
    /\ call \in {[op |-> "cell_input", field_type |-> ft, value |-> v] :
                    ft \in CellTypes, v \in CellValues}

\* One turn of the loop over the cells of a row: the cell is cleaned.
CleanCell ==
    /\ call.op = "cell_input"
    /\ call' = [op |-> "cell", field_type |-> call.field_type, value |-> call.value,
                cleaned |-> clean_cell(call.field_type, call.value)]
    /\ UNCHANGED <<connections, message_tables, db>>

NextCell == CleanCell

SpecCell == InitCell /\ [][NextCell]_vars

\* Queries: the messages of the reconciliation, and statements that run
\* and statements that fail at the store in each of the three ways.
QueryStatements ==
    {SelectAll("M"), SelectAll("N"),
     SelectWhere("M", "a", CellStr), SelectWhere("M", "a", PyStr(<<"1">>)),
     SelectWhere("M", "c", CellStr), SelectWhere("M", "a", CellInt),
     SelectJoin("M", "a", "N", "a"), SelectJoin("M", "b", "N", "a"),
     Malformed, EmptyText}

NextQuery ==
    \/ \E m \in ReconMessages : store_flight_data("s1", <<m>>, FALSE)
    \/ \E s \in {"s1", ""}, sql \in QueryStatements : query(s, sql)
    \/ close({})
    \/ Return

SpecQuery == Init /\ [][NextQuery]_vars

\* One field of a sample row: its name and its value.  The names are the
\* override names in two spellings, the nested-time field, and names that
\* are neither; the values are the scalars, the arrays of ArrayValues and
\* lists of texts and of mixed items.
FieldNames == {"a", "time_usec", "time_unix_usec", "TimeUS", "time_boot_ms", "Timestamp"}
ScalarValues == {PyInt(1), PyFloat(15), CellStr, PyBool(TRUE), PyBool(FALSE), PyNone, PyDict}
ListValues ==
    ArrayValues
    \cup {PyList(<<CellStr>>), PyList(<<CellStr, CellStr>>), PyList(<<PyInt(1), CellStr>>),
          PyList(<<PyInt(1), PyFloat(15)>>), PyList(<<PyNone>>), PyList(<<PyDict>>),
          PyList(<<PyList(<<CellStr, PyInt(1)>>)>>), PyList(<<PyInt(1), PyList(<<PyInt(2)>>)>>)}
SampleValues == ScalarValues \cup ListValues

InitField ==
    /\ connections = {}
    /\ message_tables = NoCatalog
    /\ db = [s \in AllSessions |-> NoTables]
    /\ call \in {[op |-> "field_input", field |-> f, value |-> v] :
                    f \in FieldNames, v \in SampleValues}

\* _infer_duckdb_type(sample_row[field])
InferType ==
    /\ call.op = "field_input"
    /\ call' = [op |-> "infer", field |-> call.field, value |-> call.value,
                type |-> infer_duckdb_type(call.value)]
    /\ UNCHANGED <<connections, message_tables, db>>

\* One turn of the loop over the fields in _create_table_for_message: the
\* type the column is declared with.
ColumnType ==
    /\ call.op = "field_input"
    /\ call' = [op |-> "column", field |-> call.field, value |-> call.value,
                type |-> column_type(call.field, call.value)]
    /\ UNCHANGED <<connections, message_tables, db>>

\* _process_field_value(value, field, msg_name)
ProcessFieldValue ==
    /\ call.op = "field_input"
    /\ \E r \in {process_field_value(call.value, call.field)} :
           call' = [op |-> "process", field |-> call.field, value |-> call.value,
                    ok |-> r.ok, v |-> r.v]
    /\ UNCHANGED <<connections, message_tables, db>>

NextField ==
    \/ InferType
    \/ ColumnType
    \/ ProcessFieldValue

SpecField == InitField /\ [][NextField]_vars

\* Ingestion: the spec's example message ATTITUDE of a time field and a
\* float field, with columns that differ in what their first row holds;
\* GPS, whose time_usec joins with ATTITUDE's time_boot_ms; SYSTEM_TIME of
\* the nested-time field, whose cell is a list of lists, a scalar or a
\* flat list.
Message2(name, f, fcol, g, gcol) ==
    [name |-> name, data |-> <<[f |-> f, col |-> fcol], [f |-> g, col |-> gcol]>>]
NestedCells ==
    {PyList(<<PyList(<<PyInt(5)>>)>>),
     PyList(<<PyList(<<PyInt(5), PyInt(6)>>), PyList(<<PyInt(7)>>)>>),
     PyList(<<PyList(<<>>)>>),
     PyList(<<PyList(<<CellStr>>)>>),
     PyInt(5),
     PyList(<<PyInt(5), PyInt(6)>>)}
IngestMessages ==
    {Message2("ATTITUDE", "time_boot_ms", c[1], "roll", c[2]) :
        c \in {<<<<PyInt(1), PyInt(2)>>, <<PyFloat(1), PyFloat(2)>>>>,
               <<<<PyInt(1), PyInt(2)>>, <<PyInt(1), PyFloat(15)>>>>,
               <<<<PyInt(1), PyInt(2)>>, <<PyFloat(1)>>>>,
               <<<<PyFloat(15)>>, <<CellStr>>>>,
               <<<<PyInt(2)>>, <<PyInt(1)>>>>}}
    \cup {Message2("GPS", "time_usec", c[1], "alt", c[2]) :
        c \in {<<<<PyInt(1), PyInt(2)>>, <<PyInt(1), PyInt(1)>>>>,
               <<<<CellStr>>, <<PyInt(1)>>>>}}
    \cup {[name |-> "SYSTEM_TIME", data |-> <<[f |-> "time_unix_usec", col |-> <<c>>]>>] :
             c \in NestedCells}
IngestStatements ==
    {SelectAll("ATTITUDE"), SelectAll("SYSTEM_TIME"),
     SelectWhere("ATTITUDE", "roll", PyFloat(1)),
     SelectWhere("GPS", "time_usec", PyInt(1)),
     SelectJoin("GPS", "time_usec", "ATTITUDE", "time_boot_ms")}

NextIngest ==
    \/ \E m \in IngestMessages : store_flight_data("s1", <<m>>, FALSE)
    \/ \E sql \in IngestStatements : query("s1", sql)
    \/ Return

SpecIngest == Init /\ [][NextIngest]_vars

(***************************************************************************)
(* SQLQueryAgent.  A text of the language model is a sequence of words, a  *)
(* blank being the word " ".  The replies of the language model and the    *)
(* statement of sql_tools.generate_sql_query are inputs.                   *)
(***************************************************************************)
\* str.strip(): the blanks at both ends are taken off.
RECURSIVE lstrip(_)
lstrip(text) ==
    IF text # <<>> /\ text[1] = " " THEN lstrip(Tail(text)) ELSE text
RECURSIVE rstrip(_)
rstrip(text) ==
    IF text # <<>> /\ text[Len(text)] = " "
    THEN rstrip(SubSeq(text, 1, Len(text) - 1)) ELSE text
strip(text) == rstrip(lstrip(text))

\* str.lower(), word by word.
lower_word(w) ==
    CASE w = "NULL" -> "null"
      [] w = "None" -> "none"
      [] w = "No clarification needed" -> "no clarification needed"
      [] w = "Which altitude?" -> "which altitude?"
      [] OTHER -> w
lower(text) == [i \in 1..Len(text) |-> lower_word(text[i])]

\* ['null', 'none', 'no clarification needed']
NoClarificationWords == {<<"null">>, <<"none">>, <<"no clarification needed">>}

\* _needs_clarification, reply being what the completion call does:
\* [ok, content], ok FALSE when the call raises, content None or a text.
\* It returns None or the clarifying question.
needs_clarification(reply) ==
    IF ~reply.ok \/ reply.content.k = "none" THEN PyNone
    ELSE LET clarification == strip(reply.content.s)
         IN  IF lower(clarification) \in NoClarificationWords THEN PyNone
             ELSE PyStr(clarification)

\* if clarification: neither None nor the empty text.
Truthy(v) == v.k # "none" /\ v.s # <<>>

\* _generate_answer, completion being what the completion call does: the
\* answer, stripped, or a raise as Exception("Error generating answer: ..").
generate_answer(completion) ==
    IF ~completion.ok \/ completion.content.k = "none"
    THEN [raised |-> TRUE, text |-> <<"Error generating answer: ">>]
    ELSE [raised |-> FALSE, text |-> strip(completion.content.s)]

\* flight_db.query as process_question calls it: what it raises or
\* returns, and the connections and the catalog after it.
query_called(session_id, sql) ==
    IF session_id = "" \/ sql.kind = "empty" THEN
        [raised |-> TRUE, err |-> "DataValidationError",
         text |-> <<IF session_id = ""
                    THEN "Invalid session_id: must be a non-empty string"
                    ELSE "Invalid SQL query: must be a non-empty string">>,
         rows |-> <<>>, connections |-> connections, message_tables |-> message_tables]
    ELSE
        LET r == Execute(db[session_id], sql)
        IN  [raised |-> ~r.ok,
             err |-> IF r.ok THEN "none" ELSE "DatabaseConnectionError",
             text |-> IF r.ok THEN <<>> ELSE <<"Failed to execute query: ">> \o r.diag,
             rows |-> r.rows,
             connections |-> connections \cup {session_id},
             message_tables |-> get_connection(session_id)]

\* What the body of the try statement has done when it is left:
\* [steps, clarification, raised, text, connections, message_tables];
\* steps is the calls made in order, raised says that the body is left by
\* an exception, text being the exception's text, else what is returned.
AgentStep(steps, clarification, raised, text, conns, catalog) ==
    [steps |-> steps, clarification |-> clarification, raised |-> raised,
     text |-> text, connections |-> conns, message_tables |-> catalog]

\* process_question running the statement before it checks whether the
\* question needs clarification.
process_question_body_query_first(session_id, reply, generated, completion) ==
    IF generated.raised THEN
        AgentStep(<<"generate">>, PyNone, TRUE, generated.text,
                  connections, message_tables)
    ELSE
    LET q == query_called(session_id, generated.sql)
        clarification == needs_clarification(reply)
    IN  IF q.raised THEN
            AgentStep(<<"generate", "query">>, PyNone, TRUE, q.text,
                      q.connections, q.message_tables)
        ELSE IF Truthy(clarification) THEN
            AgentStep(<<"generate", "query", "clarify">>, clarification, FALSE,
                      clarification.s, q.connections, q.message_tables)
        ELSE
        LET a == generate_answer(completion)
        IN  AgentStep(<<"generate", "query", "clarify", "answer">>, clarification,
                      a.raised, a.text, q.connections, q.message_tables)

\* The body of the try statement of process_question.
process_question_body(session_id, reply, generated, completion) ==
    LET clarification == needs_clarification(reply)
    IN  IF Truthy(clarification) THEN
            AgentStep(<<"clarify">>, clarification, FALSE, clarification.s,
                      connections, message_tables)
        ELSE IF generated.raised THEN
            AgentStep(<<"clarify", "generate">>, clarification, TRUE, generated.text,
                      connections, message_tables)
        ELSE
        LET q == query_called(session_id, generated.sql)
        IN  IF q.raised THEN
                AgentStep(<<"clarify", "generate", "query">>, clarification, TRUE,
                          q.text, q.connections, q.message_tables)
            ELSE
            LET a == generate_answer(completion)
            IN  AgentStep(<<"clarify", "generate", "query", "answer">>, clarification,
                          a.raised, a.text, q.connections, q.message_tables)

\* process_question: the body, and the except clause that turns what the
\* body raises into the text that is returned.
process_question(session_id, reply, generated, completion) ==
    /\ call.op = "none"
    /\ \E r \in {process_question_body(session_id, reply, generated, completion)} :
           /\ connections' = r.connections
           /\ message_tables' = r.message_tables
           /\ UNCHANGED db
           /\ call' = [op |-> "ask", sid |-> session_id, reply |-> reply,
                       generated |-> generated, completion |-> completion,
                       steps |-> r.steps, clarification |-> r.clarification,
                       failed |-> r.raised,
                       err |-> "none",
                       answer |-> IF r.raised
                                  THEN <<"Error processing question: ">> \o r.text
                                  ELSE r.text,
                       pre_open |-> session_id \in connections,
                       pre_known |-> Known(session_id),
                       pre_conns |-> connections,
                       pre_catalog |-> message_tables,
                       pre_tabs |-> IF session_id \in AllSessions
                                    THEN db[session_id] ELSE NoTables]

\* Questions: the replies of the clarification check, which name a
\* question, say that none is needed, are blank, have no content or are
\* not given; the statements generated, which run, fail at the store or
\* are refused, or the generation raises; the completions of the answer.
ReplyTexts ==
    {<<"Which altitude?">>, <<" ", "Which altitude?", " ">>, <<"null">>,
     <<"NULL", " ">>, <<"None">>, <<"No clarification needed">>,
     <<"null", " ", "Which altitude?">>, <<>>, <<" ">>}
Completions(texts) ==
    {[ok |-> FALSE, content |-> PyNone], [ok |-> TRUE, content |-> PyNone]}
    \cup {[ok |-> TRUE, content |-> PyStr(t)] : t \in texts}
AgentStatements == {SelectAll("M"), SelectAll("N"), Malformed, EmptyText}
Generations ==
    {[raised |-> TRUE, sql |-> EmptyText, text |-> <<"Error generating SQL query">>]}
    \cup {[raised |-> FALSE, sql |-> sql, text |-> <<>>] : sql \in AgentStatements}
AnswerTexts == {<<"The altitude was 1 m.", " ">>}

NextAgent ==
    \/ \E m \in ReconMessages : store_flight_data("s1", <<m>>, FALSE)
    \/ \E s \in {"s1", ""}, reply \in Completions(ReplyTexts), g \in Generations,
          c \in Completions(AnswerTexts) : process_question(s, reply, g, c)
    \/ close({})
    \/ Return

SpecAgent == Init /\ [][NextAgent]_vars

(***************************************************************************)
(* What the claims are stated with: the store call that has just run,      *)
(* read from call.  Entry i of call.log says what the loop did with        *)
(* message i of the payload.                                               *)
(***************************************************************************)
Stored == call.op = "store"
Taken == IF Stored THEN 1..Len(call.log) ELSE {}
Msg(i) == call.payload[i]
Entry(i) == call.log[i]

NoTable == [cols |-> <<>>, rows |-> <<>>]
TableIn(tabs, name) == IF name \in DOMAIN tabs THEN tabs[name] ELSE NoTable
NowTable(name) == TableIn(db[call.sid], name)
PreTable(name) == TableIn(call.pre_tabs, name)
IsPrefix(a, b) == Len(a) <= Len(b) /\ \A i \in 1..Len(a) : a[i] = b[i]

\* Nothing of the call shows on the message's table or catalog entry.
Untouched(name) ==
    /\ NowTable(name) = PreTable(name)
    /\ (name \in Known(call.sid)) = (name \in call.pre_known)

\* A cell of the message that validation or normalization rejects.
HasBadCell(msg) ==
    \E j \in 1..Len(msg.data) : \E i \in 1..Len(msg.data[j].col) :
        \/ ~IsAllowedCell(msg.data[j].col[i])
        \/ ~process_field_value(msg.data[j].col[i], msg.data[j].f).ok

\* The row the table t holds for row i of the message: every named column
\* that reaches i as the column's type stores its normalized value, NULL
\* elsewhere.
StoredRow(t, data, i) ==
    [c \in ColNames(t) |->
        IF c \in FieldSet(data) /\ i <= Len(ColumnOf(data, c))
        THEN Cast(TypeOf(t, c), process_field_value(ColumnOf(data, c)[i], c).v).v
        ELSE PyNone]

\* The table holds what it held before the call and then rows 1..n of the
\* message, in that order.
AppendedRows(name, data, n) ==
    LET t == NowTable(name)
    IN  /\ Len(t.rows) = Len(PreTable(name).rows) + n
        /\ IsPrefix(PreTable(name).rows, t.rows)
        /\ \A i \in 1..n : t.rows[Len(PreTable(name).rows) + i] = StoredRow(t, data, i)

\* Every message before place i was ingested whole.
EarlierCommitted(i) ==
    \A j \in 1..(i - 1) :
        num_rows(Msg(j).data) > 0 =>
            AppendedRows(Msg(j).name, Msg(j).data, num_rows(Msg(j).data))

\* For no message after place i is a table created or a row inserted.
LaterUntouched(i) ==
    \A j \in (i + 1)..Len(call.payload) : Untouched(Msg(j).name)

(***************************************************************************)
(* C1: when validating or normalizing a cell of a message fails, no row of *)
(* that message is committed and its table is not created, while every row *)
(* of the messages processed earlier in the same call is committed.        *)
(***************************************************************************)
C1_FailingMessageCommitsNothing ==
    \A i \in Taken :
        HasBadCell(Msg(i)) =>
            /\ call.err # "none"
            /\ Untouched(Msg(i).name)
            /\ EarlierCommitted(i)

\* The second message's first row is valid and its second is not; the
\* first message's row is in its table.
C1_Witness ==
    /\ Stored /\ Len(call.log) = 2
    /\ HasBadCell(Msg(2))
    /\ Msg(2).data[1].col[1] = CellInt
    /\ Len(NowTable(Msg(1).name).rows) > Len(PreTable(Msg(1).name).rows)

(***************************************************************************)
(* C2: when the insert of row k of a message fails, exactly the rows       *)
(* before k of that message are committed, in input order, after the rows  *)
(* the table held; row k and the later rows are not inserted; the failure  *)
(* reaches the caller.                                                     *)
(***************************************************************************)
\* The store rejects row i of the message for table t.
RowRejected(t, data, i) ==
    \/ ~(FieldSet(data) \subseteq ColNames(t))
    \/ \E f \in FieldSet(data) \cap ColNames(t) :
          /\ i <= Len(ColumnOf(data, f))
          /\ ~Cast(TypeOf(t, f), process_field_value(ColumnOf(data, f)[i], f).v).ok

C2_InsertFailureKeepsRowsBefore ==
    \A i \in Taken :
        Entry(i).outcome = "insert" =>
            LET k == Entry(i).inserted + 1
            IN  /\ call.err # "none"
                /\ k <= num_rows(Msg(i).data)
                /\ RowRejected(NowTable(Msg(i).name), Msg(i).data, k)
                /\ \A r \in 1..(k - 1) : ~RowRejected(NowTable(Msg(i).name), Msg(i).data, r)
                /\ AppendedRows(Msg(i).name, Msg(i).data, k - 1)

C2_Witness ==
    /\ Stored /\ Len(call.log) = 1
    /\ Entry(1).outcome = "insert"
    /\ Entry(1).inserted = 1
    /\ Entry(1).built = 2
    /\ Len(NowTable(Msg(1).name).rows) = 1

(***************************************************************************)
(* C3: when table creation or a row insert fails at the store, the call    *)
(* ends with the error: nothing committed before the failure is rolled     *)
(* back (the tables keep the rows they held, the earlier messages and the  *)
(* rows inserted before the failure stay), and for no later message of the *)
(* payload is a table created or a row inserted.                           *)
(***************************************************************************)
C3_StorageFailureHaltsCall ==
    \A i \in Taken :
        Entry(i).outcome \in {"create", "insert"} =>
            /\ call.err # "none"
            /\ \A name \in DOMAIN call.pre_tabs :
                  /\ NowTable(name).cols = PreTable(name).cols
                  /\ IsPrefix(PreTable(name).rows, NowTable(name).rows)
            /\ EarlierCommitted(i)
            /\ AppendedRows(Msg(i).name, Msg(i).data, Entry(i).inserted)
            /\ LaterUntouched(i)

\* The first of two messages fails at its second insert; the second
\* message has a row the store would take.
C3_Witness ==
    /\ Stored /\ Len(call.log) = 1 /\ Len(call.payload) = 2
    /\ Entry(1).outcome = "insert" /\ Entry(1).inserted = 1
    /\ Msg(2).data # <<>>
    /\ Msg(2).data[1].col = <<CellInt>>
    /\ Msg(2).name \notin DOMAIN db[call.sid]

(***************************************************************************)
(* C4, as claimed: a validation or schema error in one message aborts only *)
(* that message; the messages that come later in the payload are still     *)
(* ingested.  A later message that validation accepts and that has rows    *)
(* would then be known after the call.                                     *)
(***************************************************************************)
C4_LaterMessagesStillIngested ==
    \A i \in Taken :
        (Entry(i).outcome \in {"invalid", "schema"} /\ ~call.fault) =>
            \A j \in (i + 1)..Len(call.payload) :
                (/\ num_rows(Msg(j).data) > 0
                 /\ ~HasBadCell(Msg(j)))
                => Msg(j).name \in Known(call.sid)

(***************************************************************************)
(* C4, amended: a validation or schema error in one message aborts that    *)
(* message and the rest of the call: the error reaches the caller, for no  *)
(* later message of the payload is a table created or a row inserted, and  *)
(* the messages processed earlier remain ingested.                         *)
(***************************************************************************)
C4_ValidationErrorEndsCall ==
    \A i \in Taken :
        Entry(i).outcome \in {"invalid", "schema"} =>
            /\ call.err # "none"
            /\ LaterUntouched(i)
            /\ EarlierCommitted(i)

C4_Witness ==
    /\ Stored /\ Len(call.log) = 1 /\ Len(call.payload) = 2
    /\ Entry(1).outcome = "invalid"
    /\ Msg(2).data # <<>>
    /\ Msg(2).data[1].col = <<CellInt>>
    /\ Msg(2).name \notin DOMAIN db[call.sid]
    /\ Msg(2).name \notin Known(call.sid)

(***************************************************************************)
(* C5: table creation is idempotent.  A table is created at most once: no  *)
(* store call creates a table that exists again, it keeps its columns,     *)
(* their types and its rows.  And table creation called a second time for  *)
(* a message whose table exists (the catalog having lost it), with a       *)
(* sample row that has every field, whatever its values, raises nothing    *)
(* and leaves the columns and their types as they were.                    *)
(***************************************************************************)
\* The first built row has every field of the message.
FirstRowComplete(data) == \A j \in 1..Len(data) : Len(data[j].col) >= 1

\* Table creation is called again for a table that exists.
CreatedAgain(i) ==
    /\ Msg(i).name \in DOMAIN call.pre_tabs
    /\ Msg(i).name \notin call.pre_known
    /\ num_rows(Msg(i).data) > 0
    /\ ~HasBadCell(Msg(i))

C6_NoTableAfterFailedCreation ==
    \A i \in Taken :
        Entry(i).outcome \in {"schema", "create"} =>
            /\ Msg(i).name \notin Known(call.sid)
            /\ Msg(i).name \notin DOMAIN db[call.sid]

(***************************************************************************)
(* C6, amended: when table creation fails, which it does before any        *)
(* statement when a field is not a key of the sample row, the error        *)
(* reaches the caller, the message name is not added to the catalog and    *)
(* the store is left as it was: no table is created, and a table for the   *)
(* message exists afterwards only if it existed before the call.  A store  *)
(* call for a message that is not in the catalog calls table creation      *)
(* (again).                                                                *)
(***************************************************************************)
C6_FailedCreationLeavesNoTrace ==
    /\ \A i \in Taken :
          Entry(i).outcome \in {"schema", "create"} =>
              /\ call.err # "none"
              /\ Msg(i).name \notin Known(call.sid)
              /\ NowTable(Msg(i).name) = PreTable(Msg(i).name)
    /\ \A i \in Taken :
          (Msg(i).name \notin call.pre_known /\ num_rows(Msg(i).data) > 0
             /\ ~HasBadCell(Msg(i))) =>
              /\ Entry(i).issued \/ Entry(i).outcome = "schema"
              /\ ~FirstRowComplete(Msg(i).data) => Entry(i).outcome = "schema"

C6_Witness ==
    /\ Stored /\ Len(call.log) = 1
    /\ Entry(1).outcome = "schema"
    /\ ~FirstRowComplete(Msg(1).data)
    /\ Msg(1).name \notin DOMAIN db[call.sid]

(***************************************************************************)
(* C7: after the catalog is lost while the store holds a table for a       *)
(* message, the next store call for the message issues a creation          *)
(* statement that leaves the table, its columns and its rows as they were, *)
(* marks the message known, and appends the new rows after the existing    *)
(* ones: the rows up to the first one the store rejects, all of them when  *)
(* it rejects none.                                                        *)
(***************************************************************************)
C7_ColdCatalogAppends ==
    \A i \in Taken :
        (CreatedAgain(i) /\ FirstRowComplete(Msg(i).data) /\ ~call.fault) =>
            /\ Entry(i).issued
            /\ Msg(i).name \in Known(call.sid)
            /\ NowTable(Msg(i).name).cols = PreTable(Msg(i).name).cols
            /\ AppendedRows(Msg(i).name, Msg(i).data, Entry(i).inserted)
            /\ (\A r \in 1..num_rows(Msg(i).data) :
                    ~RowRejected(PreTable(Msg(i).name), Msg(i).data, r))
               => /\ Entry(i).inserted = num_rows(Msg(i).data)
                  /\ call.err = "none"

C7_Witness ==
    /\ Stored /\ Len(call.log) = 1
    /\ ~call.pre_open
    /\ CreatedAgain(1) /\ Entry(1).issued
    /\ Len(PreTable(Msg(1).name).rows) = 1
    /\ Len(NowTable(Msg(1).name).rows) = 2
    /\ call.err = "none"

(***************************************************************************)
(* C8: in every step of store, query, introspection and close, every table *)
(* that exists keeps its columns and their declared types.                 *)
(***************************************************************************)
C8_SchemaImmutable ==
    [][\A s \in AllSessions : \A t \in DOMAIN db[s] :
          /\ t \in DOMAIN db'[s]
          /\ db'[s][t].cols = db[s][t].cols]_vars

\* A later batch whose first value has another type than the column
\* declares has had a row inserted.
C8_Witness ==
    /\ Stored /\ Len(call.log) = 1
    /\ Msg(1).name \in DOMAIN call.pre_tabs
    /\ Entry(1).inserted >= 1
    /\ \E c \in FieldSet(Msg(1).data) :
          /\ Len(ColumnOf(Msg(1).data, c)) >= 1
          /\ column_type(c, build_row(Msg(1).data, 1)[c]) # TypeOf(NowTable(Msg(1).name), c)

(***************************************************************************)
(* C9: every row store inserts supplies a value for every column declared  *)
(* for the message's table: the columns an INSERT names are the table's    *)
(* columns, also for a later batch of another field set.                   *)
(***************************************************************************)
C9_InsertNamesEveryColumn ==
    \A i \in Taken :
        Entry(i).inserted > 0 =>
            Entry(i).fields = ColNames(NowTable(Msg(i).name))

(***************************************************************************)
(* C10: for a message whose columns have different lengths, store raises   *)
(* no error and the table gets exactly max-column-length rows; in row i a  *)
(* field whose column does not reach i is NULL and every other field holds *)
(* its normalized value.  Stated for the first batch of a message whose    *)
(* cells are all the same integer, so that nothing but the lengths can     *)
(* make the call fail.                                                     *)
(***************************************************************************)
Ragged(data) ==
    \E j, k \in 1..Len(data) : Len(data[j].col) # Len(data[k].col)
AllCellsInt(data) ==
    \A j \in 1..Len(data) : \A i \in 1..Len(data[j].col) : data[j].col[i] = CellInt

C10_RaggedStoredSparse ==
    \A i \in Taken :
        (/\ Ragged(Msg(i).data) /\ AllCellsInt(Msg(i).data)
         /\ Msg(i).name \notin DOMAIN call.pre_tabs /\ ~call.fault) =>
            /\ call.err = "none"
            /\ ColNames(NowTable(Msg(i).name)) = FieldSet(Msg(i).data)
            /\ AppendedRows(Msg(i).name, Msg(i).data, num_rows(Msg(i).data))

\* C10 holds of the ragged messages that have no empty column.
C10_RaggedWithoutEmptyColumn ==
    \A i \in Taken :
        (/\ Ragged(Msg(i).data) /\ AllCellsInt(Msg(i).data)
         /\ FirstRowComplete(Msg(i).data)
         /\ Msg(i).name \notin DOMAIN call.pre_tabs /\ ~call.fault) =>
            /\ call.err = "none"
            /\ ColNames(NowTable(Msg(i).name)) = FieldSet(Msg(i).data)
            /\ AppendedRows(Msg(i).name, Msg(i).data, num_rows(Msg(i).data))

(***************************************************************************)
(* What the claims on reconciliation are stated with: the                  *)
(* cleanup_existing_data call that has just run, the table it started from *)
(* and the rows a complete reconciliation writes for it.                   *)
(***************************************************************************)
Cleaned == call.op = "cleanup"
Visited == IF Cleaned THEN 1..Len(call.log) ELSE {}
Visit(i) == call.log[i]

\* The cell reconciliation writes for row r, column c of table t.
RepairedCell(t, r, c) ==
    Cast(IF TypeOf(t, c) = "INTEGER" THEN "BIGINT" ELSE TypeOf(t, c),
         bind_param(clean_cell(TypeOf(t, c), fetchdf(t)[r][c]), call.nan_as_null)).v
RepairedRows(t) ==
    [r \in 1..Len(t.rows) |-> [c \in ColNames(t) |-> RepairedCell(t, r, c)]]

(***************************************************************************)
(* C13: wherever the reconciliation of a table stops, a failure of the     *)
(* create, an insert, the drop or the rename included, a table of the      *)
(* original name exists with the declared columns it had, holding all the  *)
(* original rows or all the repaired rows.                                 *)
(***************************************************************************)
C13_TableReplacedAtomically ==
    \A i \in Visited :
        Visit(i).name \in DOMAIN call.pre_tabs =>
            /\ Visit(i).name \in DOMAIN db[call.sid]
            /\ NowTable(Visit(i).name).cols = PreTable(Visit(i).name).cols
            /\ NowTable(Visit(i).name).rows
                  \in {PreTable(Visit(i).name).rows, RepairedRows(PreTable(Visit(i).name))}

\* C13 holds of every point at which the reconciliation of a table stops
\* but the one between the drop and the rename.
C13_AtomicUpToTheDrop ==
    \A i \in Visited :
        (Visit(i).name \in DOMAIN call.pre_tabs /\ Visit(i).outcome # "rename") =>
            /\ Visit(i).name \in DOMAIN db[call.sid]
            /\ NowTable(Visit(i).name).cols = PreTable(Visit(i).name).cols
            /\ NowTable(Visit(i).name).rows
                  \in {PreTable(Visit(i).name).rows, RepairedRows(PreTable(Visit(i).name))}

(***************************************************************************)
(* C14: reconciliation loses no data.  A table it has rebuilt has as many  *)
(* rows as before, in the same order: row r holds, in every column that is *)
(* not declared numeric, the value row r held before, and in a numeric     *)
(* column the repaired value of row r's cell.  A table whose reconciliation*)
(* fails before the drop keeps its rows.                                   *)
(***************************************************************************)
C14_ReconciliationKeepsRows ==
    \A i \in Visited :
        LET old == PreTable(Visit(i).name)
            new == NowTable(Visit(i).name)
        IN  /\ Visit(i).outcome = "ok" =>
                /\ Len(new.rows) = Len(old.rows)
                /\ \A r \in 1..Len(old.rows) : \A c \in ColNames(old) :
                      IF TypeOf(old, c) \in NumericTypes
                      THEN new.rows[r][c] = RepairedCell(old, r, c)
                      ELSE new.rows[r][c] = old.rows[r][c]
            /\ Visit(i).outcome \in {"empty", "create", "insert", "drop"} =>
                new.rows = old.rows

\* A table of two different rows, with a NULL in a text column, has been
\* rebuilt.
C14_Witness ==
    /\ Cleaned /\ Len(call.log) >= 1
    /\ Visit(1).outcome = "ok"
    /\ Len(PreTable(Visit(1).name).rows) = 2
    /\ PreTable(Visit(1).name).rows[1] # PreTable(Visit(1).name).rows[2]
    /\ \E r \in 1..2 : \E c \in ColNames(PreTable(Visit(1).name)) :
          /\ TypeOf(PreTable(Visit(1).name), c) = "VARCHAR"
          /\ PreTable(Visit(1).name).rows[r][c] = PyNone

(***************************************************************************)
(* C16: reconciliation is idempotent.  Run again, in any order of the      *)
(* tables, on a session whose tables a reconciliation has all rebuilt (or  *)
(* skipped as empty), it changes no table: no cell, no row count, no       *)
(* schema.                                                                 *)
(***************************************************************************)
Reconciled == \A i \in Visited : Visit(i).outcome \in {"ok", "empty"}

C16_ReconciliationIdempotent ==
    (Cleaned /\ call.sid \in DOMAIN message_tables /\ Reconciled) =>
        \A o \in Orders(Known(call.sid)) :
            cleanup_tables([tabs |-> db[call.sid], err |-> "none", log |-> <<>>],
                           o, 1, NoFault, call.nan_as_null).tabs = db[call.sid]

\* A reconciliation has rebuilt a table of two different rows.
C16_Witness ==
    /\ Cleaned /\ Len(call.log) >= 1
    /\ Visit(1).outcome = "ok"
    /\ Len(NowTable(Visit(1).name).rows) = 2
    /\ NowTable(Visit(1).name).rows[1] # NowTable(Visit(1).name).rows[2]

(***************************************************************************)
(* C17: a failure while reconciling one table is caught.  Reconciliation   *)
(* returns to its caller without raising and has visited every table of    *)
(* the catalog, the ones after a table that failed included, which are     *)
(* rebuilt as they are without that failure.                               *)
(***************************************************************************)
C17_TableFailureIsCaught ==
    Cleaned =>
        /\ call.err = "none"
        /\ call.sid \in DOMAIN message_tables =>
              /\ Len(call.log) = Cardinality(call.pre_known)
              /\ {Visit(i).name : i \in Visited} = call.pre_known
        /\ \A i \in Visited :
              (/\ Visit(i).name \in DOMAIN call.pre_tabs
               /\ PreTable(Visit(i).name).rows # <<>>
               /\ temp_table_name(Visit(i).name) \notin DOMAIN call.pre_tabs
               /\ call.fault.table # Visit(i).name)
              => Visit(i).outcome = "ok"

\* The first table visited failed, the second has been rebuilt.
C17_Witness ==
    /\ Cleaned /\ Len(call.log) = 2
    /\ Visit(1).outcome \in {"create", "insert", "drop", "rename"}
    /\ Visit(2).outcome = "ok"

(***************************************************************************)
(* What the claims on the repair of a cell are stated with: the cell that  *)
(* has been cleaned, the array its text encodes and that array's canonical *)
(* scalar.                                                                 *)
(***************************************************************************)
CellCleaned == call.op = "cell"

\* The first element of array L, or the first element of that element when
\* it is a non-empty array.
Canonical(L) ==
    IF L.xs[1].k = "list" /\ L.xs[1].xs # <<>> THEN L.xs[1].xs[1] ELSE L.xs[1]

\* The non-empty arrays the cell's text encodes (one, or none).
Encoded ==
    {L \in ArrayValues : L.xs # <<>> /\ call.value = PyStr(json_dumps(L))}

\* A number in tenths.
Tenths(v) == IF v.k = "int" THEN 10 * v.n ELSE v.n

(***************************************************************************)
(* C15: for a cell of an Integer-declared column whose text encodes a      *)
(* non-empty array, reconciliation stores the array's canonical scalar:    *)
(* the first element, or the first element of the first element when that  *)
(* is a non-empty array, as an integer (a float's integer part), never     *)
(* another element or an aggregate.  The text [[7,8]] becomes 7.           *)
(***************************************************************************)
C15_FirstElementStored ==
    (CellCleaned /\ call.field_type \in {"BIGINT", "INTEGER"}) =>
        /\ \A L \in Encoded :
              /\ Canonical(L).k = "int" => call.cleaned = Canonical(L)
              /\ Canonical(L).k = "float" =>
                    call.cleaned = PyInt(Canonical(L).n \div 10)
        /\ call.value = SpecExample => call.cleaned = PyInt(7)

\* The cell held an array of several elements, the first one an array of
\* several integers.
C15_Witness ==
    /\ CellCleaned /\ call.field_type = "BIGINT"
    /\ call.value = PyStr(json_dumps(
           PyList(<<PyList(<<PyInt(7), PyInt(8)>>), PyList(<<PyInt(9)>>)>>)))
    /\ call.cleaned = PyInt(7)

(***************************************************************************)
(* C18: a cell of a numeric-declared column (Integer or Float) whose       *)
(* decoded or raw value cannot be parsed as a number is set to null, and   *)
(* the value written for it is one the shadow table's column takes, so     *)
(* that the table's reconciliation does not fail on it.                    *)
(***************************************************************************)
\* The decoded value of a text that encodes a non-empty array, else the
\* raw value.
DecodedOrRaw ==
    IF Encoded # {} THEN Canonical(CHOOSE L \in Encoded : TRUE) ELSE call.value

IsNumberLike(v) ==
    \/ v.k \in {"int", "float", "bool"}
    \/ v.k = "str" /\ Len(v.s) = 1 /\ IsDigit(v.s[1])
    \/ v.k = "str" /\ Len(v.s) = 3 /\ IsDigit(v.s[1]) /\ v.s[2] = "." /\ IsDigit(v.s[3])

\* The cell holds a value, and one that is no number.
Unparseable ==
    /\ call.value.k \notin {"none", "nan"}
    /\ call.value # SpecExample
    /\ ~IsNumberLike(DecodedOrRaw)

C18_IntegerCellNulled ==
    (CellCleaned /\ call.field_type \in {"BIGINT", "INTEGER"} /\ Unparseable) =>
        /\ call.cleaned = PyNone
        /\ Cast("BIGINT", call.cleaned).ok

C11_SessionsIndependent ==
    [][(call.op = "none" /\ call'.op \in {"store", "query", "info", "cleanup"}) =>
          \A t \in AllSessions \ {call'.sid} :
              /\ db'[t] = db[t]
              /\ (t \in connections') = (t \in connections)
              /\ (t \in DOMAIN message_tables') = (t \in DOMAIN message_tables)
              /\ t \in DOMAIN message_tables => message_tables'[t] = message_tables[t]]_vars

\* A session has stored into its table M while the other session holds a
\* connection, a catalog entry and a table M of another content.
C11_Witness ==
    /\ call.op = "store" /\ call.err = "none"
    /\ \E t \in AllSessions \ {call.sid} :
          /\ t \in connections
          /\ "M" \in Known(t)
          /\ "M" \in DOMAIN db[t]
          /\ db[t]["M"] # db[call.sid]["M"]

C20_ValidationErrorKind ==
    Stored =>
        /\ (call.sid = "" \/ call.payload = <<>>) =>
              /\ call.err = "DataValidationError"
              /\ call.sid \in AllSessions => db[call.sid] = call.pre_tabs
        /\ \A i \in Taken :
              Entry(i).outcome = "invalid" =>
                  /\ call.err = "DataValidationError"
                  /\ Untouched(Msg(i).name)

\* C20 holds of the failures found before the loop over the messages (the
\* session id and the payload), and the offending write never happens.
C20_ArgumentErrorsAndNoWrite ==
    Stored =>
        /\ (call.sid = "" \/ call.payload = <<>>) =>
              /\ call.err = "DataValidationError"
              /\ call.sid \in AllSessions => db[call.sid] = call.pre_tabs
        /\ \A i \in Taken :
              Entry(i).outcome = "invalid" =>
                  /\ call.err # "none"
                  /\ Untouched(Msg(i).name)

(***************************************************************************)
(* C21.  A query whose statement fails at the store (a text that is no     *)
(* statement, a table or column that does not exist, a predicate whose     *)
(* value cannot be cast to the column's type) raises an error to the       *)
(* caller whose text holds the store's diagnostic, and hands the caller no *)
(* frame, empty or partial.                                                *)
(***************************************************************************)
Queried == call.op = "query" /\ call.sid # "" /\ call.sql.kind # "empty"
FailsAtStore == Queried /\ ~Execute(call.pre_tabs, call.sql).ok
Diagnostic == Execute(call.pre_tabs, call.sql).diag

C21_FailingStatementRaises ==
    FailsAtStore =>
        /\ call.err = "DatabaseConnectionError"
        /\ ~call.returned
        /\ \E i \in 1..Len(call.message) : <<call.message[i]>> = Diagnostic

\* A predicate compares an integer column that holds a row with a text.
C21_Witness ==
    /\ FailsAtStore
    /\ Diagnostic = <<"Conversion Error">>
    /\ Len(call.pre_tabs[call.sql.table].rows) > 0
    /\ call.err # "none"

(***************************************************************************)
(* C22.  For a scalar sample the inferred type is BIGINT for an integer,   *)
(* DOUBLE for a floating-point number, VARCHAR for a string and BOOLEAN    *)
(* for a boolean, and for a value that is none of these, null included, it *)
(* is VARCHAR.                                                             *)
(***************************************************************************)
Inferred == call.op = "infer"

C22_ScalarTypeInferred ==
    Inferred /\ call.value.k # "list" =>
        call.type = CASE call.value.k = "int" -> "BIGINT"
                      [] call.value.k = "float" -> "DOUBLE"
                      [] call.value.k = "str" -> "VARCHAR"
                      [] call.value.k = "bool" -> "BOOLEAN"
                      [] OTHER -> "VARCHAR"

\* The same for every scalar that is no boolean; a boolean gets BIGINT.
C22_BooleanInferredInteger ==
    Inferred /\ call.value.k # "list" =>
        call.type = CASE call.value.k \in {"int", "bool"} -> "BIGINT"
                      [] call.value.k = "float" -> "DOUBLE"
                      [] call.value.k = "str" -> "VARCHAR"
                      [] OTHER -> "VARCHAR"

(***************************************************************************)
(* C23.  For a list sample the inferred type is VARCHAR for an empty list; *)
(* for a list whose first item is a non-empty list it is BIGINT when that  *)
(* inner list's first item is numeric and VARCHAR otherwise; for any other *)
(* non-empty list it is BIGINT when every item is a numeric scalar and     *)
(* VARCHAR when every item is a string or the items are mixed or of other  *)
(* kinds.  Numeric is what isinstance(x, (int, float)) holds of.           *)
(***************************************************************************)
Items == call.value.xs
FirstIsNonEmptyList == Items[1].k = "list" /\ Len(Items[1].xs) > 0

IsOverrideName(field) ==
    field \in {"timeus", "TimeUS", "time_boot_ms", "timestamp", "Timestamp"}

C24_TimeOverride ==
    call.op = "column" =>
        call.type = IF IsOverrideName(call.field) THEN "BIGINT"
                    ELSE infer_duckdb_type(call.value)

\* TimeUS with a text as its sample, which alone would give VARCHAR.
C24_Witness ==
    /\ call.op = "column"
    /\ call.field = "TimeUS"
    /\ call.value = CellStr
    /\ call.type = "BIGINT"

(***************************************************************************)
(* C25.  normalize maps null to null, an empty list to null, a list of one *)
(* scalar to that scalar, a scalar that is an integer, a float, a string   *)
(* or a boolean to itself, and every other non-empty list to the text of   *)
(* its JSON encoding.                                                      *)
(***************************************************************************)
Processed == call.op = "process"
AcceptedScalar(v) == v.k \in {"int", "float", "str", "bool"}

NormalizedAsListed ==
    CASE call.value.k = "none" -> call.ok /\ call.v = PyNone
      [] call.value.k = "list" /\ Len(Items) = 0 -> call.ok /\ call.v = PyNone
      [] call.value.k = "list" /\ Len(Items) = 1 /\ AcceptedScalar(Items[1]) ->
            call.ok /\ call.v = Items[1]
      [] call.value.k = "list" -> call.ok /\ call.v = PyStr(json_dumps(call.value))
      [] AcceptedScalar(call.value) -> call.ok /\ call.v = call.value
      [] OTHER -> TRUE

C25_NormalizeEveryField == Processed => NormalizedAsListed

\* The nested-time field with a list whose first item is a list.
NestedTimeCase ==
    /\ call.field = "time_unix_usec"
    /\ call.value.k = "list" /\ Len(Items) > 0 /\ Items[1].k = "list"

\* C25, amended: as listed, but for the nested-time field's lists whose
\* first item is a list, which are neither unwrapped nor encoded.
C25_NormalizeOutsideNestedTime ==
    Processed /\ ~NestedTimeCase => NormalizedAsListed

\* A list of a list that is not the nested-time field's has been encoded.
C25_Witness ==
    /\ Processed
    /\ call.field = "a"
    /\ call.value = PyList(<<PyList(<<PyInt(7), PyInt(8)>>)>>)
    /\ call.v = PyStr(<<"[", "[", "7", ", ", "8", "]", "]">>)

(***************************************************************************)
(* C26.  A cell of the nested-time field time_unix_usec that is a list of  *)
(* lists [[v, ...], ...] is stored as the scalar v, not as the text of an  *)
(* array; a cell of that field of any other shape is a validation failure  *)
(* of the message.                                                         *)
(***************************************************************************)
IsListOfLists(c) ==
    c.k = "list" /\ Len(c.xs) > 0 /\ c.xs[1].k = "list" /\ Len(c.xs[1].xs) > 0
\* The value the table holds for row r of message i in column f.
StoredCell(i, f, r) ==
    NowTable(Msg(i).name).rows[Len(PreTable(Msg(i).name).rows) + r][f]
\* The cells of the nested-time field in message i: [col, r].
NestedTimeCells(i) ==
    {x \in UNION {{[col |-> Msg(i).data[j].col, r |-> r] : r \in 1..Len(Msg(i).data[j].col)} :
                     j \in {k \in 1..Len(Msg(i).data) : Msg(i).data[k].f = "time_unix_usec"}} :
        TRUE}

\* The table holds for the cell x the first item of its first list, as
\* the column's type stores it, and not the text of the array.
StoredAsScalar(i, x) ==
    LET v == x.col[x.r].xs[1].xs[1]
        t == NowTable(Msg(i).name)
    IN  /\ StoredCell(i, "time_unix_usec", x.r) = Cast(TypeOf(t, "time_unix_usec"), v).v
        /\ StoredCell(i, "time_unix_usec", x.r) # PyStr(json_dumps(x.col[x.r]))

C26_NestedTimeField ==
    \A i \in Taken : \A x \in NestedTimeCells(i) :
        IF IsListOfLists(x.col[x.r])
        THEN Entry(i).outcome = "ok" => StoredAsScalar(i, x)
        ELSE Entry(i).outcome = "invalid"

\* What holds of the list of lists: when its first scalar is a number the
\* cell is stored as that number, in a column typed by an earlier text as
\* the number's text, and else the message is rejected.
C26_ListOfListsStoredAsScalar ==
    \A i \in Taken : \A x \in NestedTimeCells(i) :
        IsListOfLists(x.col[x.r]) =>
            IF x.col[x.r].xs[1].xs[1].k \in {"int", "float"}
            THEN Entry(i).outcome = "ok" /\ StoredAsScalar(i, x)
            ELSE Entry(i).outcome = "invalid"

(***************************************************************************)
(* C27.  The first successful store of a message creates a table of the    *)
(* message's name whose columns are the message's fields in order, each    *)
(* typed from the first row's value (BIGINT for an override name), and     *)
(* which holds one row for every index, in input order; a field of         *)
(* integers gets a BIGINT column and a field of floats a DOUBLE column,    *)
(* and a query with a numeric predicate or a join on such columns runs.    *)
(***************************************************************************)
FirstStore(i) == Entry(i).outcome = "ok" /\ Msg(i).name \notin DOMAIN call.pre_tabs
FirstValue(f, col) == process_field_value(col[1], f).v
TypeOfValue(v) ==
    CASE v.k = "int" -> "BIGINT"
      [] v.k = "float" -> "DOUBLE"
      [] OTHER -> "VARCHAR"
AllOfKind(col, k) == \A r \in 1..Len(col) : col[r].k = k
NumericColumn(tabs, table, column) ==
    /\ table \in DOMAIN tabs
    /\ column \in ColNames(tabs[table])
    /\ TypeOf(tabs[table], column) \in NumericTypes

C27_FirstStoreCreatesTable ==
    /\ \A i \in Taken : FirstStore(i) =>
          LET data == Msg(i).data
              t == NowTable(Msg(i).name)
          IN  /\ Msg(i).name \in DOMAIN db[call.sid]
              /\ Len(t.cols) = Len(data)
              /\ \A j \in 1..Len(data) :
                    /\ t.cols[j].name = data[j].f
                    /\ t.cols[j].type = IF IsOverrideName(data[j].f) THEN "BIGINT"
                                        ELSE TypeOfValue(FirstValue(data[j].f, data[j].col))
                    /\ AllOfKind(data[j].col, "int") => t.cols[j].type = "BIGINT"
                    /\ AllOfKind(data[j].col, "float") /\ ~IsOverrideName(data[j].f)
                           => t.cols[j].type = "DOUBLE"
              /\ Len(t.rows) = num_rows(data)
              /\ \A r \in 1..num_rows(data) : t.rows[r] = StoredRow(t, data, r)
    /\ Queried /\ call.sql.kind = "where" /\ call.sql.value.k \in {"int", "float"}
          /\ NumericColumn(call.pre_tabs, call.sql.table, call.sql.column)
          => call.err = "none" /\ call.returned
    /\ Queried /\ call.sql.kind = "join"
          /\ NumericColumn(call.pre_tabs, call.sql.table, call.sql.column)
          /\ NumericColumn(call.pre_tabs, call.sql.other, call.sql.other_column)
          => call.err = "none" /\ call.returned

\* The spec's example has been stored: ATTITUDE with time_boot_ms BIGINT
\* and roll DOUBLE and two rows.
C27_Witness ==
    /\ Stored /\ Len(call.log) = 1 /\ FirstStore(1)
    /\ Msg(1).name = "ATTITUDE"
    /\ NowTable("ATTITUDE").cols = <<[name |-> "time_boot_ms", type |-> "BIGINT"],
                                     [name |-> "roll", type |-> "DOUBLE"]>>
    /\ Len(NowTable("ATTITUDE").rows) = 2
    /\ NowTable("ATTITUDE").rows[2]["roll"] = PyFloat(2)

(***************************************************************************)
(* C28.  Schema introspection of a session returns one entry for every     *)
(* message name of the session's catalog and no other, succeeds whether or *)
(* not the description lookup has a description for a table, and changes   *)
(* neither the catalog nor a table.                                        *)
(***************************************************************************)
Introspected == call.op = "info"
\* The session has a catalog entry and every name of it has its table.
CatalogBacked == call.pre_open /\ call.pre_known \subseteq DOMAIN call.pre_tabs
StateAsBefore ==
    /\ db[call.sid] = call.pre_tabs
    /\ Known(call.sid) = call.pre_known
    /\ (call.sid \in connections) = call.pre_open

C28_IntrospectionSucceeds ==
    Introspected /\ CatalogBacked =>
        /\ call.err = "none"
        /\ DOMAIN call.result = call.pre_known
        /\ StateAsBefore

\* What holds: nothing is changed, a result has the catalog's names and
\* their columns, and the call succeeds when the lookup returns, with a
\* description or without one.
C28_IntrospectionReadsOnly ==
    Introspected =>
        /\ StateAsBefore
        /\ call.err = "none" =>
               /\ DOMAIN call.result = call.pre_known
               /\ \A t \in call.pre_known : call.result[t].schema = call.pre_tabs[t].cols
        /\ CatalogBacked /\ call.description # "raise" => call.err = "none"

C30_NoShadowTableRemains ==
    Cleaned =>
        /\ \A name \in call.pre_known : temp_table_name(name) \notin DOMAIN db[call.sid]
        /\ call.fault = NoFault =>
               \A i \in Visited :
                   Visit(i).name \in DOMAIN call.pre_tabs => Visit(i).outcome \in {"ok", "empty"}

\* What holds: a table whose reconciliation ran to its end has no shadow
\* table, and a shadow table is left behind exactly by a reconciliation
\* that failed after creating it or that found one in its way.
C30_ShadowLeftByFailure ==
    Cleaned =>
        \A i \in Visited :
            LET temp == temp_table_name(Visit(i).name)
            IN  /\ Visit(i).outcome = "ok" => temp \notin DOMAIN db[call.sid]
                /\ Visit(i).outcome \in {"insert", "drop"} => temp \in DOMAIN db[call.sid]
                /\ temp \in DOMAIN call.pre_tabs =>
                       Visit(i).outcome \in {"select", "empty", "create"}

\* A run without a failing statement did not rebuild a table, the shadow
\* table of an earlier failed run being in its way.
C30_LaterRunBlocked ==
    /\ Cleaned /\ call.fault = NoFault
    /\ \E i \in Visited :
           /\ Visit(i).outcome = "create"
           /\ temp_table_name(Visit(i).name) \in DOMAIN call.pre_tabs
           /\ Len(call.pre_tabs[Visit(i).name].rows) > 0

(***************************************************************************)
(* C31.  In every state every message name of a session's catalog has a    *)
(* table of that name in the session's store, and reconciliation leaves    *)
(* the names of the catalog as they were.                                  *)
(***************************************************************************)
CatalogHasTables ==
    \A s \in DOMAIN message_tables : message_tables[s] \subseteq DOMAIN db[s]
CatalogNamesKept == Cleaned => Known(call.sid) = call.pre_known

C31_CatalogNamesHaveTables == CatalogHasTables /\ CatalogNamesKept

\* What holds: reconciliation leaves the catalog's names as they were, and
\* a name of the catalog that has no table has its rows under the shadow
\* table's name, where a failed RENAME left them.
C31_MissingTableLivesAsShadow ==
    /\ CatalogNamesKept
    /\ \A s \in DOMAIN message_tables : \A name \in message_tables[s] :
           name \notin DOMAIN db[s] => temp_table_name(name) \in DOMAIN db[s]

\* Without a failing statement in reconciliation every name of the catalog
\* has its table.
C31_BackedWithoutFailure == CatalogHasTables

(***************************************************************************)
(* C32.  A message that has fields and whose columns are all empty is      *)
(* passed by: its table and its catalog entry are as before the call, so   *)
(* no table is created for it and its name is not added to the catalog,    *)
(* it raises no error, and the message after it is taken up.               *)
(***************************************************************************)
NoRows(msg) == msg.data # <<>> /\ num_rows(msg.data) = 0

C32_EmptyMessageSkipped ==
    \A i \in Taken : NoRows(Msg(i)) =>
        /\ Entry(i).outcome = "skipped"
        /\ ~Entry(i).issued
        /\ Untouched(Msg(i).name)
        /\ Msg(i).name \notin call.pre_known => Msg(i).name \notin Known(call.sid)
        /\ Msg(i).name \notin DOMAIN call.pre_tabs =>
               Msg(i).name \notin DOMAIN db[call.sid]
        /\ i = Len(call.log) => call.err = "none"
        /\ i < Len(call.payload) => i + 1 \in Taken

\* Message M of no rows comes first and is passed by; N after it is stored.
C32_Witness ==
    /\ Stored
    /\ Len(call.payload) = 2
    /\ Len(call.log) = 2
    /\ NoRows(Msg(1))
    /\ Entry(1).outcome = "skipped"
    /\ Msg(1).name \notin Known(call.sid)
    /\ Msg(1).name \notin DOMAIN db[call.sid]
    /\ Entry(2).outcome = "ok"
    /\ Entry(2).inserted > 0
    /\ Msg(2).name \in Known(call.sid) \ call.pre_known
    /\ call.err = "none"

(***************************************************************************)
(* C33.  process_question queries the session's store at most once, and    *)
(* only after the clarification check has returned no clarification, a     *)
(* check that failed counting as none; when the check returns a            *)
(* clarification, that is what is returned and no statement is generated   *)
(* or run; and when the generation, the query or the answering fails, the  *)
(* failure is returned as an error text and nothing is raised.             *)
(***************************************************************************)
Asked == call.op = "ask"
StepsAt(step) == IF Asked THEN {i \in 1..Len(call.steps) : call.steps[i] = step} ELSE {}
CheckFailed == ~call.reply.ok \/ call.reply.content.k = "none"
ClarificationReturned == Truthy(needs_clarification(call.reply))
GenerationFails == ~ClarificationReturned /\ call.generated.raised
QueryFails ==
    /\ ~ClarificationReturned
    /\ ~call.generated.raised
    /\ \/ call.sid = ""
       \/ call.generated.sql.kind = "empty"
       \/ ~Execute(call.pre_tabs, call.generated.sql).ok
AnsweringFails ==
    /\ ~ClarificationReturned
    /\ ~call.generated.raised
    /\ ~QueryFails
    /\ ~call.completion.ok \/ call.completion.content.k = "none"
NoQueryEffect ==
    /\ connections = call.pre_conns
    /\ message_tables = call.pre_catalog
    /\ call.sid # "" => db[call.sid] = call.pre_tabs

C33_QueryOnceAfterClarification ==
    Asked =>
        /\ Cardinality(StepsAt("query")) <= 1
        /\ Cardinality(StepsAt("generate")) <= 1
        /\ \A i \in StepsAt("query") :
               /\ ~ClarificationReturned
               /\ \E j \in 1..(i - 1) : call.steps[j] = "clarify"
               /\ \E j \in 1..(i - 1) : call.steps[j] = "generate"
        /\ CheckFailed => ~ClarificationReturned /\ StepsAt("generate") # {}
        /\ CheckFailed /\ ~call.generated.raised => StepsAt("query") # {}
        /\ ClarificationReturned =>
               /\ call.steps = <<"clarify">>
               /\ call.answer = strip(call.reply.content.s)
               /\ NoQueryEffect
        /\ call.err = "none"
        /\ GenerationFails \/ QueryFails \/ AnsweringFails =>
               /\ call.failed
               /\ call.answer # <<>>
               /\ call.answer[1] = "Error processing question: "
               /\ Len(call.answer) > 1
        /\ ~ClarificationReturned /\ ~(GenerationFails \/ QueryFails \/ AnsweringFails) =>
               /\ call.steps = <<"clarify", "generate", "query", "answer">>
               /\ call.answer = strip(call.completion.content.s)

\* The check fails, which counts as no clarification; the statement that
\* is generated is run once and fails at the store, and the failure comes
\* back as an error text.
C33_Witness ==
    /\ Asked
    /\ ~call.reply.ok
    /\ call.steps = <<"clarify", "generate", "query">>
    /\ QueryFails
    /\ call.sid = "s1"
    /\ call.pre_tabs # NoTables
    /\ call.generated.sql = Malformed
    /\ call.err = "none"
    /\ call.answer = <<"Error processing question: ", "Failed to execute query: ",
                       "Parser Error">>

\* The other cases of the claim, each of them reached.
C33_ClarificationCase ==
    /\ Asked
    /\ ClarificationReturned
    /\ call.pre_tabs # NoTables
    /\ ~call.pre_open
    /\ ~call.generated.raised
    /\ call.answer = <<"Which altitude?">>
C33_AnsweredCase ==
    /\ Asked
    /\ call.reply.ok
    /\ call.reply.content.k = "str"
    /\ call.steps = <<"clarify", "generate", "query", "answer">>
    /\ ~call.failed
    /\ call.answer = <<"The altitude was 1 m.">>
C33_AnsweringFailsCase == Asked /\ AnsweringFails /\ call.failed
C33_GenerationFailsCase == Asked /\ GenerationFails /\ call.failed
C33_BlankReplyCase ==
    /\ Asked
    /\ call.reply.ok
    /\ call.reply.content.k = "str"
    /\ needs_clarification(call.reply) = PyStr(<<>>)
    /\ StepsAt("query") # {}

====
